---- MODULE Spec2Model ----
(***************************************************************************)
(* Model of the email bridge's inbound pipeline:                           *)
(*   email_monitor.py    EmailHandler.handle_RCPT / handle_DATA            *)
(*   email_processor.py  EmailProcessor.process_email and its helpers      *)
(* One SMTP session is one task.  A task moves from one await to the next  *)
(* in one step; every await on the store, the API client or the session    *)
(* context may raise, and the task may be cancelled while it is suspended. *)
(***************************************************************************)
EXTENDS Integers, Sequences, FiniteSets, TLC

\* ------------------------------------------------------------------ bounds
MaxRcpt == 2        \* RCPT commands modelled per transaction
MaxRecords == 2     \* rows the store holds before the model stops accepting DATA
MaxReroutes == 1    \* direct re-invocations of _route_email on one record
MaxParts == 3       \* parts below the root of a multipart message
MaxSends == 2       \* calls of send_email
MaxBatch == 2       \* messages one IMAP search returns

\* --------------------------------------------------------------- constants
SessionIds == {"s1", "s2"}

\* settings.EMAIL_DOMAIN, as a sequence of characters
EMAIL_DOMAIN == <<"e", "x">>

\* addresses a client may propose: in the domain, the domain as a suffix
\* of another domain, and the domain followed by more characters
Addresses ==
  { <<"u", "@", "e", "x">>,
    <<"u", "@", "x", "e", "x">>,
    <<"u", "@", "e", "x", "y">> }

\* EmailType values _determine_email_type can return
InboundTypes == {"STANDARD", "AUTO_REPLY", "BOUNCE", "UNSUBSCRIBE", "INFRA_REQUEST"}

\* attachments of a message: none, decodable ones, or one whose payload
\* get_payload(decode=True) returns None for (a message/rfc822 attachment)
AttachmentKinds == {"none", "ok", "bad"}

\* str(e) of the exceptions the collaborators raise; "" is the text of an
\* exception constructed without a message (asyncio.TimeoutError())
ApiErrors == {"", "api error"}
StoreErrors == {"db error"}
ExtractError == "object of type 'NoneType' has no len()"

Unset == "<None>"        \* a field holding None
NoExc == "<no exception>"
NoTime == 0
NoReply == 0

\* settings.SMTP_USERNAME / settings.SMTP_PASSWORD handed to EmailAuthChecker
SMTP_USERNAME == "admin"
SMTP_PASSWORD == "secret"

\* bytes that are not valid UTF-8: bytes.decode() raises on them
BadBytes == "<not utf-8>"

\* what a client may send as login and as password
Logins == {"admin", "Admin", "guest", BadBytes}
Passwords == {"secret", "Secret", "", BadBytes}

\* auth_data that is no LoginPassword (None, or another mechanism's data)
NoPair == [kind |-> "other", login |-> "", password |-> ""]

\* the auth_data the authenticator may be called with
AuthData ==
  {NoPair} \cup
  {[kind |-> "pair", login |-> l, password |-> p] : l \in Logins, p \in Passwords}

NoLog == <<>>
NoAuth == [authenticated |-> FALSE, data |-> NoPair, outcome |-> "none",
           handled |-> FALSE, audit |-> NoLog]

NoRecord == [id |-> 0, status |-> "NONE", error |-> Unset, processed_at |-> NoTime,
             email_type |-> "NONE", body |-> <<>>, metadata |-> "none"]
NoMsg == [email_type |-> "NONE", att |-> "none", recipients |-> <<>>,
          rejected |-> FALSE]
NoHandler == [outcome |-> "none", text |-> NoExc]
\* invocations made for one message: the stages of process_email, the
\* API client, the template service (template requested, templates it
\* returned, render calls and the keys of the rendered context) and the
\* response sender
NoCalls == [api |-> 0, notify |-> 0, template |-> "none", fetched |-> 0,
            render |-> 0, context |-> {}, send |-> 0, save |-> 0, attach |-> 0,
            route |-> 0]

\* the status update send_email asks for (none yet)
NoUpdate == [status |-> "NONE", error |-> Unset]

\* no call of send_email yet: rows are the outbound rows of the emails
\* table, id is email_data.id (0 while email_data is unbound)
NoSend == [pc |-> "idle", rows |-> <<>>, id |-> 0, created |-> 0,
           body_type |-> "plain", template |-> Unset, upd |-> NoUpdate,
           raised |-> NoExc, returned |-> "pending"]

\* the IMAP bridge as EmailBridge.__init__ leaves it: pc is the position of
\* start(), batch the message_ids of the running _check_emails and done
\* what _process_email did with each of them so far
NoBridge == [pc |-> "new", configured |-> FALSE, running |-> FALSE,
             polled |-> FALSE, batch |-> <<>>, done |-> <<>>,
             interrupted |-> FALSE]

VARIABLES
  sessions,    \* the sessions the listener serves
  fn,          \* a direct call of _determine_email_type and _parse_infra_request:
               \* the arguments and the values returned
  ex,          \* a direct call of _extract_email_content: the message and
               \* the locals it returned with
  auth,        \* per session: authenticated?, and the last AUTH attempt with
               \* the AuthResult and the audit log line it produced
  pc,          \* where each session's task stands
  proposed,    \* addresses proposed by RCPT in the current transaction
  rcpt_tos,    \* envelope.rcpt_tos
  rcptReply,   \* the last reply of handle_RCPT in the current transaction
  msg,         \* the message handed to process_email: email_type, attachments
  db_email,    \* the local db_email of process_email (NoRecord while unbound)
  cur,         \* id of the row _save_email committed for the current message
  saved,       \* the recipients column of that row
  caught,      \* str(e) of the exception process_email caught
  handler,     \* outcome of the category handler inside _route_email
  calls,       \* API calls and notification attempts made for the message
  result,      \* what process_email returned: "pending", "None", "record"
  dataReply,   \* the reply of handle_DATA for the current message
  store,       \* the rows of the emails table (lifecycle fields); the id is the index
  clock,       \* datetime.utcnow()
  reroutes,    \* direct re-invocations of _route_email so far
  out,         \* a call of EmailResponseSender.send_email and the row it creates
  br           \* the IMAP bridge (main.py): its loop, the batch and the replies

envVars == <<proposed, rcpt_tos, rcptReply>>
pipeVars == <<sessions, auth, pc, proposed, rcpt_tos, rcptReply, msg, db_email,
              cur, saved, caught, handler, calls, result, dataReply, store, clock,
              reroutes>>
taskVars == <<msg, db_email, cur, saved, caught, handler, calls, result, dataReply>>
vars == <<sessions, fn, ex, out, br, auth, pc, proposed, rcpt_tos, rcptReply, msg, db_email, cur,
          saved, caught, handler, calls, result, dataReply, store, clock, reroutes>>

\* ----------------------------------------------------------------- helpers
\* str.endswith
EndsWith(str, suffix) ==
  /\ Len(str) >= Len(suffix)
  /\ SubSeq(str, Len(str) - Len(suffix) + 1, Len(str)) = suffix

\* handle_RCPT's test of the address, without the '@'
AcceptsRecipientNoAt(address) == EndsWith(address, EMAIL_DOMAIN)

\* handle_RCPT: address.endswith(f"@{settings.EMAIL_DOMAIN}")
AcceptsRecipient(address) == EndsWith(address, <<"@">> \o EMAIL_DOMAIN)

\* EmailAuthChecker.__call__: no LoginPassword -> AuthResult(success=False,
\* handled=False); login.decode() / password.decode() raise on invalid
\* UTF-8; exact match -> AuthResult(success=True); otherwise the warning is
\* logged and AuthResult(success=False, handled=True) returned
AuthChecker(auth_data) ==
  IF auth_data.kind # "pair"
    THEN [outcome |-> "failure", handled |-> FALSE, audit |-> NoLog]
  ELSE IF auth_data.login = BadBytes \/ auth_data.password = BadBytes
    THEN [outcome |-> "raised", handled |-> FALSE, audit |-> NoLog]
  ELSE IF auth_data.login = SMTP_USERNAME /\ auth_data.password = SMTP_PASSWORD
    THEN [outcome |-> "success", handled |-> TRUE, audit |-> NoLog]
  ELSE [outcome |-> "failure", handled |-> TRUE,
        audit |-> <<"Failed authentication attempt for user: ", auth_data.login>>]

\* auth_required=True with the authentication state of any session
AuthorizedAny(s) == \E x \in SessionIds : auth[x].authenticated

\* Controller(..., auth_required=True): MAIL, RCPT and DATA are refused
\* until the session itself has authenticated
Authorized(s) == auth[s].authenticated

\* handle_DATA passing the addresses proposed instead of the accepted ones
RecipientsProposed(s) == proposed[s]

\* handle_DATA, line 62: process_email(db, msg, mail_from, envelope.rcpt_tos)
Recipients(s) == rcpt_tos[s]

\* ",".join(recipients)
RECURSIVE JoinComma(_)
JoinComma(recipients) ==
  IF recipients = <<>> THEN <<>>
  ELSE IF Len(recipients) = 1 THEN Head(recipients)
  ELSE Head(recipients) \o <<",">> \o JoinComma(Tail(recipients))

\* the lifecycle fields of the row _save_email inserts for
\* EmailCreate(status=RECEIVED, ...): error and processed_at are None
NewRow ==
  [status |-> "RECEIVED", error |-> Unset, processed_at |-> NoTime]

\* the ORM object _save_email returns for row i: Email(**email_data),
\* with the lifecycle fields as the refresh reads them from the row
Loaded(i, email_type, body) ==
  [id |-> i, status |-> store[i].status, error |-> store[i].error,
   processed_at |-> store[i].processed_at, email_type |-> email_type,
   body |-> body, metadata |-> "headers"]

\* a commit that writes the fields of email to the first row of the store
CommittedFirstRow(email) ==
  [store EXCEPT ![1] =
     [@ EXCEPT !.status = email.status, !.error = email.error,
               !.processed_at = email.processed_at]]

\* a successful commit of the ORM object email: the row takes its fields
Committed(email) ==
  [store EXCEPT ![email.id] =
     [@ EXCEPT !.status = email.status, !.error = email.error,
               !.processed_at = email.processed_at]]

\* _route_email after the handler, with the success branch also taken
\* for a handler that raised
RouteResultAlwaysProcessed(email, raised, text, now) ==
  [email EXCEPT !.status = "PROCESSED", !.processed_at = now]

\* _route_email, lines 274-281: the status the handler's outcome gives,
\* the error text of the except branch, and the processed timestamp
RouteResult(email, raised, text, now) ==
  IF raised
    THEN [email EXCEPT !.status = "FAILED", !.error = text, !.processed_at = now]
    ELSE [email EXCEPT !.status = "PROCESSED", !.processed_at = now]

\* _handle_infra_request, lines 300-302: the request id and the API
\* response are put into the metadata of the record
Attached(email) == [email EXCEPT !.metadata = "headers+request"]

\* every confirmation asking for the template of the infrastructure request
TemplateNameInfraOnly(email_type) == "infra_request_confirmation"

\* the template each confirmation asks the template service for
TemplateName(email_type) ==
  IF email_type = "INFRA_REQUEST"
    THEN "infra_request_confirmation"
    ELSE "unsubscribe_confirmation"

\* the keys of the context each confirmation is rendered with
Context(email_type) ==
  IF email_type = "INFRA_REQUEST"
    THEN {"request_id", "title", "description", "status", "priority",
          "environment", "created_at", "user_email"}
    ELSE {"email", "unsubscribe_date"}

\* get_template returns the template, or raises
TemplateOutcomes == {"ok", "raised"}

\* _send_confirmation_email / _send_unsubscribe_confirmation: the template
\* is requested; if that returns, the context is built and rendered, and
\* the result is only logged ("Would send ..."); _route_email was entered
\* through this call for an UNSUBSCRIBE message
Notified(c, email_type, outcome) ==
  [c EXCEPT !.notify = @ + 1,
            !.route = IF email_type = "UNSUBSCRIBE" THEN @ + 1 ELSE @,
            !.template = TemplateName(email_type),
            !.fetched = IF outcome = "ok" THEN @ + 1 ELSE @,
            !.render = IF outcome = "ok" THEN @ + 1 ELSE @,
            !.context = IF outcome = "ok" THEN Context(email_type) ELSE @]

\* the dispatch with the API branch as the default one
HandlerEntryApiDefault(email_type) ==
  CASE email_type = "UNSUBSCRIBE" -> "notify"
    [] OTHER -> "api"

\* the await the category dispatch of _route_email reaches first
HandlerEntry(email_type) ==
  CASE email_type = "INFRA_REQUEST" -> "api"
    [] email_type = "UNSUBSCRIBE" -> "notify"
    [] OTHER -> "standard"

\* positions at which the task is suspended in an await
AwaitPcs == {"save_commit", "save_refresh", "attach", "api", "notify",
             "route_commit", "except_commit", "exit"}

Pcs == {"idle", "extract", "standard", "aborted"} \cup AwaitPcs

\* ------------------------------------------------------------- texts
\* Texts are tuples of one-character strings.

UpperCase == <<
  "A", "B", "C", "D", "E", "F", "G", "H", "I", "J", "K", "L", "M", "N", "O",
  "P", "Q", "R", "S", "T", "U", "V", "W", "X", "Y", "Z">>

LowerCase == <<
  "a", "b", "c", "d", "e", "f", "g", "h", "i", "j", "k", "l", "m", "n", "o",
  "p", "q", "r", "s", "t", "u", "v", "w", "x", "y", "z">>

\* str.lower() on one character
LowerChar(c) ==
  IF \E i \in 1..Len(UpperCase) : UpperCase[i] = c
    THEN LowerCase[CHOOSE i \in 1..Len(UpperCase) : UpperCase[i] = c]
    ELSE c

\* the text as it is, not lowered
LowerNot(text) == text

\* str.lower()
Lower(text) == [i \in 1..Len(text) |-> LowerChar(text[i])]

\* term in text
Contains(text, term) ==
  \E i \in 1..(Len(text) - Len(term) + 1) :
    SubSeq(text, i, i + Len(term) - 1) = term

\* any(term in text for term in terms)
ContainsAny(text, terms) ==
  \E k \in 1..Len(terms) : Contains(text, terms[k])

\* _determine_email_type: auto_reply_indicators
auto_reply_indicators == <<
  \* "auto-reply"
  <<"a", "u", "t", "o", "-", "r", "e", "p", "l", "y">>,
  \* "automatic reply"
  <<"a", "u", "t", "o", "m", "a", "t", "i", "c", " ", "r", "e", "p", "l", "y">>,
  \* "auto reply"
  <<"a", "u", "t", "o", " ", "r", "e", "p", "l", "y">>,
  \* "autoreply"
  <<"a", "u", "t", "o", "r", "e", "p", "l", "y">>,
  \* "out of office"
  <<"o", "u", "t", " ", "o", "f", " ", "o", "f", "f", "i", "c", "e">>,
  \* "ooo"
  <<"o", "o", "o">>,
  \* "vacation"
  <<"v", "a", "c", "a", "t", "i", "o", "n">>,
  \* "away"
  <<"a", "w", "a", "y">>,
  \* "annual leave"
  <<"a", "n", "n", "u", "a", "l", " ", "l", "e", "a", "v", "e">>,
  \* "automatic response"
  <<"a", "u", "t", "o", "m", "a", "t", "i", "c", " ", "r", "e", "s", "p", "o", "n", "s", "e">>,
  \* "auto response"
  <<"a", "u", "t", "o", " ", "r", "e", "s", "p", "o", "n", "s", "e">>,
  \* "auto-response"
  <<"a", "u", "t", "o", "-", "r", "e", "s", "p", "o", "n", "s", "e">>
>>

\* _determine_email_type: the delivery-failure terms looked up in the subject
bounce_terms == <<
  \* "delivery failed"
  <<"d", "e", "l", "i", "v", "e", "r", "y", " ", "f", "a", "i", "l", "e", "d">>,
  \* "undeliverable"
  <<"u", "n", "d", "e", "l", "i", "v", "e", "r", "a", "b", "l", "e">>,
  \* "returned mail"
  <<"r", "e", "t", "u", "r", "n", "e", "d", " ", "m", "a", "i", "l">>
>>

\* _determine_email_type: the unsubscribe terms looked up in the body
unsubscribe_terms == <<
  \* "unsubscribe"
  <<"u", "n", "s", "u", "b", "s", "c", "r", "i", "b", "e">>,
  \* "opt-out"
  <<"o", "p", "t", "-", "o", "u", "t">>
>>

\* _determine_email_type: the infrastructure-request terms looked up in the
\* subject
infra_terms == <<
  \* "infra request"
  <<"i", "n", "f", "r", "a", " ", "r", "e", "q", "u", "e", "s", "t">>,
  \* "infrastructure request"
  <<"i", "n", "f", "r", "a", "s", "t", "r", "u", "c", "t", "u", "r", "e", " ", "r", "e", "q", "u", "e", "s", "t">>
>>

\* _determine_email_type without its final return: None when no rule applies
DetermineEmailTypeNoDefault(subject, body, sender, recipients) ==
  LET subject_lower == Lower(subject)
      body_lower == Lower(body)
  IN IF \E k \in 1..Len(auto_reply_indicators) :
          \/ Contains(subject_lower, auto_reply_indicators[k])
          \/ Contains(body_lower, auto_reply_indicators[k])
       THEN "AUTO_REPLY"
     ELSE IF ContainsAny(subject_lower, bounce_terms) THEN "BOUNCE"
     ELSE IF ContainsAny(body_lower, unsubscribe_terms) THEN "UNSUBSCRIBE"
     ELSE IF ContainsAny(subject_lower, infra_terms) THEN "INFRA_REQUEST"
     ELSE Unset

\* _determine_email_type with the bounce check made before the auto-reply
\* check
DetermineEmailTypeBounceFirst(subject, body, sender, recipients) ==
  LET subject_lower == Lower(subject)
      body_lower == Lower(body)
  IN IF ContainsAny(subject_lower, bounce_terms) THEN "BOUNCE"
     ELSE IF \E k \in 1..Len(auto_reply_indicators) :
               \/ Contains(subject_lower, auto_reply_indicators[k])
               \/ Contains(body_lower, auto_reply_indicators[k])
       THEN "AUTO_REPLY"
     ELSE IF ContainsAny(body_lower, unsubscribe_terms) THEN "UNSUBSCRIBE"
     ELSE IF ContainsAny(subject_lower, infra_terms) THEN "INFRA_REQUEST"
     ELSE "STANDARD"

\* _determine_email_type: sender and recipients are not looked at
DetermineEmailType(subject, body, sender, recipients) ==
  LET subject_lower == Lower(subject)
      body_lower == Lower(body)
  IN IF \E k \in 1..Len(auto_reply_indicators) :
          \/ Contains(subject_lower, auto_reply_indicators[k])
          \/ Contains(body_lower, auto_reply_indicators[k])
       THEN "AUTO_REPLY"
     ELSE IF ContainsAny(subject_lower, bounce_terms) THEN "BOUNCE"
     ELSE IF ContainsAny(body_lower, unsubscribe_terms) THEN "UNSUBSCRIBE"
     ELSE IF ContainsAny(subject_lower, infra_terms) THEN "INFRA_REQUEST"
     ELSE "STANDARD"

\* _parse_infra_request: priority_terms["high"]
priority_high == <<
  \* "urgent"
  <<"u", "r", "g", "e", "n", "t">>,
  \* "asap"
  <<"a", "s", "a", "p">>,
  \* "high priority"
  <<"h", "i", "g", "h", " ", "p", "r", "i", "o", "r", "i", "t", "y">>,
  \* "blocking"
  <<"b", "l", "o", "c", "k", "i", "n", "g">>
>>

\* _parse_infra_request: priority_terms["low"]
priority_low == <<
  \* "low priority"
  <<"l", "o", "w", " ", "p", "r", "i", "o", "r", "i", "t", "y">>,
  \* "when you can"
  <<"w", "h", "e", "n", " ", "y", "o", "u", " ", "c", "a", "n">>,
  \* "not urgent"
  <<"n", "o", "t", " ", "u", "r", "g", "e", "n", "t">>
>>

\* _parse_infra_request: env_terms["production"]
env_production == <<
  \* "prod"
  <<"p", "r", "o", "d">>,
  \* "production"
  <<"p", "r", "o", "d", "u", "c", "t", "i", "o", "n">>,
  \* "live"
  <<"l", "i", "v", "e">>
>>

\* _parse_infra_request: env_terms["staging"]
env_staging == <<
  \* "staging"
  <<"s", "t", "a", "g", "i", "n", "g">>,
  \* "pre-prod"
  <<"p", "r", "e", "-", "p", "r", "o", "d">>,
  \* "preprod"
  <<"p", "r", "e", "p", "r", "o", "d">>
>>

\* any(term in body.lower() or term in subject.lower() for term in terms)
InEither(subject, body, terms) ==
  \E k \in 1..Len(terms) :
    Contains(Lower(body), terms[k]) \/ Contains(Lower(subject), terms[k])

\* the priority loop of _parse_infra_request with the buckets visited low
\* first
PriorityLowFirst(subject, body) ==
  IF InEither(subject, body, priority_low) THEN "low"
  ELSE IF InEither(subject, body, priority_high) THEN "high"
  ELSE "normal"

\* the priority loop of _parse_infra_request with 'not urgent' tested
\* before the high terms
PriorityNotUrgentFirst(subject, body) ==
  IF InEither(subject, body, <<priority_low[3]>>) THEN "low"
  ELSE IF InEither(subject, body, priority_high) THEN "high"
  ELSE IF InEither(subject, body, priority_low) THEN "low"
  ELSE "normal"

\* the priority loop of _parse_infra_request: the dict is visited in
\* insertion order, "high" then "low", and the first bucket with a term wins
Priority(subject, body) ==
  IF InEither(subject, body, priority_high) THEN "high"
  ELSE IF InEither(subject, body, priority_low) THEN "low"
  ELSE "normal"

\* the environment loop of _parse_infra_request with the buckets visited
\* staging first
EnvironmentStagingFirst(subject, body) ==
  IF InEither(subject, body, env_staging) THEN "staging"
  ELSE IF InEither(subject, body, env_production) THEN "production"
  ELSE "development"

\* the environment loop of _parse_infra_request with 'pre-prod' and
\* 'preprod' tested before the production terms
EnvironmentPreProdFirst(subject, body) ==
  IF InEither(subject, body, <<env_staging[2], env_staging[3]>>) THEN "staging"
  ELSE IF InEither(subject, body, env_production) THEN "production"
  ELSE IF InEither(subject, body, env_staging) THEN "staging"
  ELSE "development"

\* the environment loop of _parse_infra_request: "production" then "staging"
Environment(subject, body) ==
  IF InEither(subject, body, env_production) THEN "production"
  ELSE IF InEither(subject, body, env_staging) THEN "staging"
  ELSE "development"

\* _parse_infra_request: the fields of request_data
ParseInfraRequest(subject, body, sender) ==
  [title |-> subject, description |-> body, requestor_email |-> sender,
   priority |-> Priority(subject, body),
   environment |-> Environment(subject, body)]

\* test subject "Auto: Out of Office"
SubjectOutOfOffice == <<
  "A", "u", "t", "o", ":", " ", "O", "u", "t", " ", "o", "f", " ", "O", "f",
  "f", "i", "c", "e">>

\* test subject "RE: Test"
SubjectReTest == <<
  "R", "E", ":", " ", "T", "e", "s", "t">>

\* test subject "Delivery Status Notification (Failure)"
SubjectDeliveryStatus == <<
  "D", "e", "l", "i", "v", "e", "r", "y", " ", "S", "t", "a", "t", "u", "s",
  " ", "N", "o", "t", "i", "f", "i", "c", "a", "t", "i", "o", "n", " ", "(",
  "F", "a", "i", "l", "u", "r", "e", ")">>

\* test subject "Unsubscribe"
SubjectUnsubscribe == <<
  "U", "n", "s", "u", "b", "s", "c", "r", "i", "b", "e">>

\* test subject "Opt-out request"
SubjectOptOut == <<
  "O", "p", "t", "-", "o", "u", "t", " ", "r", "e", "q", "u", "e", "s", "t">>

\* test subject "[Infra Request] Need new server"
SubjectInfraServer == <<
  "[", "I", "n", "f", "r", "a", " ", "R", "e", "q", "u", "e", "s", "t", "]",
  " ", "N", "e", "e", "d", " ", "n", "e", "w", " ", "s", "e", "r", "v", "e",
  "r">>

\* test subject "Infrastructure request: Database"
SubjectInfraDatabase == <<
  "I", "n", "f", "r", "a", "s", "t", "r", "u", "c", "t", "u", "r", "e", " ",
  "r", "e", "q", "u", "e", "s", "t", ":", " ", "D", "a", "t", "a", "b", "a",
  "s", "e">>

\* test subject "[URGENT] Need production database"
SubjectUrgent == <<
  "[", "U", "R", "G", "E", "N", "T", "]", " ", "N", "e", "e", "d", " ", "p",
  "r", "o", "d", "u", "c", "t", "i", "o", "n", " ", "d", "a", "t", "a", "b",
  "a", "s", "e">>

\* test body "I'm out of the office"
BodyOutOfTheOffice == <<
  "I", "'", "m", " ", "o", "u", "t", " ", "o", "f", " ", "t", "h", "e", " ",
  "o", "f", "f", "i", "c", "e">>

\* test body "This is an automatic reply"
BodyAutomaticReply == <<
  "T", "h", "i", "s", " ", "i", "s", " ", "a", "n", " ", "a", "u", "t", "o",
  "m", "a", "t", "i", "c", " ", "r", "e", "p", "l", "y">>

\* test body "Could not deliver message"
BodyCouldNotDeliver == <<
  "C", "o", "u", "l", "d", " ", "n", "o", "t", " ", "d", "e", "l", "i", "v",
  "e", "r", " ", "m", "e", "s", "s", "a", "g", "e">>

\* test body "Please remove me from your mailing list"
BodyRemoveMe == <<
  "P", "l", "e", "a", "s", "e", " ", "r", "e", "m", "o", "v", "e", " ", "m",
  "e", " ", "f", "r", "o", "m", " ", "y", "o", "u", "r", " ", "m", "a", "i",
  "l", "i", "n", "g", " ", "l", "i", "s", "t">>

\* test body "I want to opt out"
BodyOptOut == <<
  "I", " ", "w", "a", "n", "t", " ", "t", "o", " ", "o", "p", "t", " ", "o",
  "u", "t">>

\* test body "Please provision a new server"
BodyProvision == <<
  "P", "l", "e", "a", "s", "e", " ", "p", "r", "o", "v", "i", "s", "i", "o",
  "n", " ", "a", " ", "n", "e", "w", " ", "s", "e", "r", "v", "e", "r">>

\* test body "Need a new database"
BodyNewDatabase == <<
  "N", "e", "e", "d", " ", "a", " ", "n", "e", "w", " ", "d", "a", "t", "a",
  "b", "a", "s", "e">>

\* last line of the test body of test_parse_infra_request
BodyBlocking == <<
  "T", "h", "i", "s", " ", "i", "s", " ", "b", "l", "o", "c", "k", "i", "n",
  "g", " ", "o", "u", "r", " ", "d", "e", "p", "l", "o", "y", "m", "e", "n",
  "t", ".">>

\* the subjects classified: those of the tests and some hitting several rules
Subjects == {
  SubjectOutOfOffice,
  SubjectReTest,
  SubjectDeliveryStatus,
  SubjectUnsubscribe,
  SubjectOptOut,
  SubjectInfraServer,
  SubjectInfraDatabase,
  SubjectUrgent,
  \* "Undeliverable: Infra Request"
  <<
    "U", "n", "d", "e", "l", "i", "v", "e", "r", "a", "b", "l", "e", ":",
    " ", "I", "n", "f", "r", "a", " ", "R", "e", "q", "u", "e", "s", "t">>,
  \* "Returned mail: out of office"
  <<
    "R", "e", "t", "u", "r", "n", "e", "d", " ", "m", "a", "i", "l", ":",
    " ", "o", "u", "t", " ", "o", "f", " ", "o", "f", "f", "i", "c", "e">>,
  \* "Delivery failed"
  <<
    "D", "e", "l", "i", "v", "e", "r", "y", " ", "f", "a", "i", "l", "e", "d">>,
  \* "Infra request for staging, not urgent"
  <<
    "I", "n", "f", "r", "a", " ", "r", "e", "q", "u", "e", "s", "t", " ",
    "f", "o", "r", " ", "s", "t", "a", "g", "i", "n", "g", ",", " ", "n",
    "o", "t", " ", "u", "r", "g", "e", "n", "t">>
}

\* the bodies classified
Bodies == {
  BodyOutOfTheOffice,
  BodyAutomaticReply,
  BodyCouldNotDeliver,
  BodyRemoveMe,
  BodyOptOut,
  BodyProvision,
  BodyNewDatabase,
  BodyBlocking,
  \* "Click here to UNSUBSCRIBE"
  <<
    "C", "l", "i", "c", "k", " ", "h", "e", "r", "e", " ", "t", "o", " ",
    "U", "N", "S", "U", "B", "S", "C", "R", "I", "B", "E">>,
  \* "Please OPT-OUT, low priority"
  <<
    "P", "l", "e", "a", "s", "e", " ", "O", "P", "T", "-", "O", "U", "T",
    ",", " ", "l", "o", "w", " ", "p", "r", "i", "o", "r", "i", "t", "y">>,
  \* "Do it when you can on pre-prod"
  <<
    "D", "o", " ", "i", "t", " ", "w", "h", "e", "n", " ", "y", "o", "u",
    " ", "c", "a", "n", " ", "o", "n", " ", "p", "r", "e", "-", "p", "r",
    "o", "d">>,
  \* "Not Urgent: use PreProd"
  <<
    "N", "o", "t", " ", "U", "r", "g", "e", "n", "t", ":", " ", "u", "s",
    "e", " ", "P", "r", "e", "P", "r", "o", "d">>
}

\* the senders classified
Senders == {"user@example.com", "MAILER-DAEMON@example.com"}

\* -------------------------------------------------------------- MIME
\* Payloads are tuples of bytes, one-character strings for ASCII bytes.

\* a byte that is not valid in the charset
InvalidByte == "xFF"

\* U+FFFD, which errors="replace" puts in its place
ReplacementChar == "uFFFD"

\* payload.decode(charset, errors="ignore")
DecodeIgnore(payload) == SelectSeq(payload, LAMBDA b : b # InvalidByte)

\* payload.decode(charset, errors="replace") for a known charset
Decode(payload) ==
  [i \in 1..Len(payload) |->
     IF payload[i] = InvalidByte THEN ReplacementChar ELSE payload[i]]

\* the charsets Python knows
KnownCharsets == {"utf-8"}

\* part.get_content_charset() or "utf-8"
Charset(part) == IF part.charset = "" THEN "utf-8" ELSE part.charset

\* html_converter.handle: the markup is dropped and the block ends with a
\* blank line
RECURSIVE StripTags(_, _)
StripTags(text, inTag) ==
  IF text = <<>> THEN <<>>
  ELSE IF Head(text) = "<" THEN StripTags(Tail(text), TRUE)
  ELSE IF Head(text) = ">" /\ inTag THEN StripTags(Tail(text), FALSE)
  ELSE IF inTag THEN StripTags(Tail(text), TRUE)
  ELSE <<Head(text)>> \o StripTags(Tail(text), FALSE)

HtmlToText(text) == StripTags(text, FALSE) \o <<"\n", "\n">>

\* _get_extension
GetExtension(content_type) ==
  CASE content_type = "text/plain" -> ".txt"
    [] content_type = "text/html" -> ".html"
    [] content_type = "application/pdf" -> ".pdf"
    [] content_type = "image/png" -> ".png"
    [] OTHER -> ".bin"

\* "attachment", looked up in the lowered Content-Disposition
attachment == <<"a", "t", "t", "a", "c", "h", "m", "e", "n", "t">>

\* MIMEText("Plain", "plain")
PlainPart ==
  [content_type |-> "text/plain", maintype |-> "text", disposition |-> <<>>,
   filename |-> "", charset |-> "utf-8", is_multipart |-> FALSE,
   payload |-> <<"P", "l", "a", "i", "n">>]

\* MIMEText("data") with Content-Disposition: attachment; filename=test.txt
TextAttachment ==
  [content_type |-> "text/plain", maintype |-> "text",
   disposition |-> <<"a", "t", "t", "a", "c", "h", "m", "e", "n", "t", ";", " ", "f", "i", "l", "e", "n", "a", "m", "e", "=", "t", "e", "s", "t", ".", "t", "x", "t">>,
   filename |-> "test.txt", charset |-> "utf-8", is_multipart |-> FALSE,
   payload |-> <<"d", "a", "t", "a">>]

\* the parts a message is built from: content type, Content-Disposition,
\* filename ("" when the header gives none), charset parameter ("" when
\* absent), payload bytes; is_multipart parts hold messages, not bytes, so
\* that get_payload(decode=True) is None
LeafParts == {
  PlainPart,
  \* MIMEText("<p>Html</p>", "html")
  [content_type |-> "text/html", maintype |-> "text", disposition |-> <<>>,
   filename |-> "", charset |-> "utf-8", is_multipart |-> FALSE,
   payload |-> <<"<", "p", ">", "H", "t", "m", "l", "<", "/", "p", ">">>],
  \* a text/plain part with an empty payload
  [content_type |-> "text/plain", maintype |-> "text", disposition |-> <<>>,
   filename |-> "", charset |-> "", is_multipart |-> FALSE,
   payload |-> <<>>],
  \* a text/plain part in a charset Python does not know
  [content_type |-> "text/plain", maintype |-> "text", disposition |-> <<>>,
   filename |-> "", charset |-> "bogus-cs", is_multipart |-> FALSE,
   payload |-> <<"o", "l", "d">>],
  \* a text/plain part with a byte that is not UTF-8
  [content_type |-> "text/plain", maintype |-> "text", disposition |-> <<>>,
   filename |-> "", charset |-> "", is_multipart |-> FALSE,
   payload |-> <<"a", InvalidByte, "b">>],
  TextAttachment,
  \* application/pdf with Content-Disposition: ATTACHMENT and no filename
  [content_type |-> "application/pdf", maintype |-> "application",
   disposition |-> <<"A", "T", "T", "A", "C", "H", "M", "E", "N", "T">>,
   filename |-> "", charset |-> "", is_multipart |-> FALSE,
   payload |-> <<"%", "P", "D", "F">>],
  \* image/png with Content-Disposition: inline
  [content_type |-> "image/png", maintype |-> "image",
   disposition |-> <<"i", "n", "l", "i", "n", "e">>,
   filename |-> "", charset |-> "", is_multipart |-> FALSE,
   payload |-> <<"P", "N", "G">>]
}

\* a nested multipart/alternative container, as msg.walk() yields it
AlternativePart ==
  [content_type |-> "multipart/alternative", maintype |-> "multipart",
   disposition |-> <<>>, filename |-> "", charset |-> "", is_multipart |-> TRUE,
   payload |-> <<>>]

\* a forwarded message attached: message/rfc822 with Content-Disposition:
\* attachment; filename=fwd.eml
ForwardedPart ==
  [content_type |-> "message/rfc822", maintype |-> "message",
   disposition |-> <<"a", "t", "t", "a", "c", "h", "m", "e", "n", "t", ";", " ", "f", "i", "l", "e", "n", "a", "m", "e", "=", "f", "w", "d", ".", "e", "m", "l">>,
   filename |-> "fwd.eml", charset |-> "", is_multipart |-> TRUE,
   payload |-> <<>>]

\* MIMEMultipart(): the root of a multipart message
MixedRoot ==
  [content_type |-> "multipart/mixed", maintype |-> "multipart",
   disposition |-> <<>>, filename |-> "", charset |-> "", is_multipart |-> TRUE,
   payload |-> <<>>]

Parts == LeafParts \cup {AlternativePart, ForwardedPart}

\* the messages extracted: every single-part message of LeafParts, and
\* every multipart message of up to MaxParts parts below its root, in the
\* order msg.walk() yields them
Messages ==
  {[root |-> p, parts |-> <<>>] : p \in LeafParts} \cup
  {[root |-> MixedRoot, parts |-> ps] :
     ps \in UNION {[1..n -> Parts] : n \in 0..MaxParts}}

\* _extract_email_content, lines 102-104: the locals before the branch
NoContent ==
  [raised |-> FALSE, body |-> <<>>, content_type |-> "text/plain",
   attachments |-> <<>>]

\* lines 117-121: the filename of the part, or a generated one
Filename(part) ==
  IF part.filename # "" THEN <<part.filename>>
  ELSE <<"attachment_", "<generate_id()>", GetExtension(part.content_type)>>

\* lines 123-129: the descriptor appended for an attachment part
Descriptor(part) ==
  [filename |-> Filename(part), content_type |-> part.content_type,
   data |-> part.payload, size |-> Len(part.payload)]

\* lines 134-141 and 148-155: payload decoded in the part's charset, HTML
\* converted to text; ok is FALSE when the try block raised (no payload
\* bytes, or a charset Python does not know)
DecodedBody(part) ==
  IF part.is_multipart \/ Charset(part) \notin KnownCharsets
    THEN [ok |-> FALSE, text |-> <<>>]
    ELSE [ok |-> TRUE,
          text |-> IF part.content_type = "text/html"
                     THEN HtmlToText(Decode(part.payload))
                     ELSE Decode(part.payload)]

\* one pass of the loop over msg.walk(), lines 108-145; acc holds the
\* locals body, content_type and attachments, and raised once len(None)
\* raised in the attachment branch
WalkPart(acc, part) ==
  LET seen == [acc EXCEPT !.content_type = part.content_type] IN
    IF part.maintype = "multipart" THEN seen
    ELSE IF Contains(Lower(part.disposition), attachment)
      THEN IF part.is_multipart
             THEN [seen EXCEPT !.raised = TRUE]
             ELSE [seen EXCEPT !.attachments = Append(@, Descriptor(part))]
    ELSE IF acc.body = <<>> /\ part.content_type \in {"text/plain", "text/html"}
      THEN IF DecodedBody(part).ok
             THEN [seen EXCEPT !.body = DecodedBody(part).text]
             ELSE seen
    ELSE seen

RECURSIVE Walk(_, _)
Walk(parts, acc) ==
  IF parts = <<>> \/ acc.raised THEN acc
  ELSE Walk(Tail(parts), WalkPart(acc, Head(parts)))

\* the else branch, lines 146-157: a message that is not multipart
SinglePart(part) ==
  IF DecodedBody(part).ok
    THEN [NoContent EXCEPT !.body = DecodedBody(part).text,
                           !.content_type = part.content_type]
    ELSE NoContent

\* _extract_email_content
ExtractEmailContent(m) ==
  IF m.root.is_multipart
    THEN Walk(<<m.root>> \o m.parts, NoContent)
    ELSE SinglePart(m.root)

\* the message handle_DATA parses for each kind of DATA: a plain text
\* message, one with a text attachment, one with a forwarded message
\* attached
MimeOf(att) ==
  CASE att = "none" -> [root |-> PlainPart, parts |-> <<>>]
    [] att = "ok" -> [root |-> MixedRoot, parts |-> <<PlainPart, TextAttachment>>]
    [] att = "bad" -> [root |-> MixedRoot, parts |-> <<PlainPart, ForwardedPart>>]

\* no call of _extract_email_content made yet
NoExtract == [msg |-> [root |-> MixedRoot, parts |-> <<>>], extracted |-> FALSE,
              content |-> NoContent]

\* a call of the classifier and of the request parser not made yet
NoRequest == [title |-> <<>>, description |-> <<>>, requestor_email |-> "",
              priority |-> Unset, environment |-> Unset]
NoCall == [subject |-> <<>>, body |-> <<>>, sender |-> "",
           classified |-> FALSE, email_type |-> Unset,
           parsed |-> FALSE, request |-> NoRequest]

\* ------------------------------------------------------------------- Init
InitWith(S) ==
  /\ sessions = S
  /\ auth = [s \in SessionIds |-> NoAuth]
  /\ pc = [s \in SessionIds |-> "idle"]
  /\ proposed = [s \in SessionIds |-> <<>>]
  /\ rcpt_tos = [s \in SessionIds |-> <<>>]
  /\ rcptReply = [s \in SessionIds |-> NoReply]
  /\ msg = [s \in SessionIds |-> NoMsg]
  /\ db_email = [s \in SessionIds |-> NoRecord]
  /\ cur = [s \in SessionIds |-> 0]
  /\ saved = [s \in SessionIds |-> <<>>]
  /\ caught = [s \in SessionIds |-> NoExc]
  /\ handler = [s \in SessionIds |-> NoHandler]
  /\ calls = [s \in SessionIds |-> NoCalls]
  /\ result = [s \in SessionIds |-> "pending"]
  /\ dataReply = [s \in SessionIds |-> NoReply]
  /\ store = <<>>
  /\ clock = 1
  /\ reroutes = 0

Init == InitWith({"s1"}) /\ fn = NoCall /\ ex = NoExtract /\ out = NoSend /\ br = NoBridge

\* ---------------------------------------------------------------- actions
\* EmailHandler.handle_RCPT; what the previous handle_DATA call of the
\* session left behind (its locals and its reply) is gone by now
HandleRcpt(s, address) ==
  /\ pc[s] = "idle"
  /\ Authorized(s)
  /\ Len(proposed[s]) < MaxRcpt
  /\ proposed' = [proposed EXCEPT ![s] = Append(@, address)]
  /\ IF ~AcceptsRecipient(address)
       THEN /\ rcptReply' = [rcptReply EXCEPT ![s] = 550]
            /\ UNCHANGED rcpt_tos
       ELSE /\ rcpt_tos' = [rcpt_tos EXCEPT ![s] = Append(@, address)]
            /\ rcptReply' = [rcptReply EXCEPT ![s] = 250]
  /\ msg' = [msg EXCEPT ![s] = NoMsg]
  /\ db_email' = [db_email EXCEPT ![s] = NoRecord]
  /\ cur' = [cur EXCEPT ![s] = 0]
  /\ saved' = [saved EXCEPT ![s] = <<>>]
  /\ caught' = [caught EXCEPT ![s] = NoExc]
  /\ handler' = [handler EXCEPT ![s] = NoHandler]
  /\ calls' = [calls EXCEPT ![s] = NoCalls]
  /\ result' = [result EXCEPT ![s] = "pending"]
  /\ dataReply' = [dataReply EXCEPT ![s] = NoReply]
  /\ UNCHANGED <<sessions, fn, ex, out, br, auth, pc, store, clock, reroutes>>

\* an AUTH command of a session that has not authenticated yet: the
\* authenticator is called with auth_data, and the session is authenticated
\* iff it returns success
Authenticate(s, auth_data) ==
  /\ pc[s] = "idle"
  /\ ~auth[s].authenticated
  /\ LET r == AuthChecker(auth_data) IN
       auth' = [auth EXCEPT ![s] =
                  [authenticated |-> r.outcome = "success", data |-> auth_data,
                   outcome |-> r.outcome, handled |-> r.handled, audit |-> r.audit]]
  /\ UNCHANGED <<sessions, fn, ex, out, br, pc, envVars, taskVars, store, clock, reroutes>>

\* the exception text leaving process_email and handle_DATA uncaught
ExceptEscapes(s, text, email) ==
  /\ caught' = [caught EXCEPT ![s] = text]
  /\ pc' = [pc EXCEPT ![s] = "aborted"]
  /\ UNCHANGED <<db_email, result>>

\* the except clause of process_email, entered with str(e) = text while
\* the local db_email is email (NoRecord when _save_email did not return)
Except(s, text, email) ==
  /\ caught' = [caught EXCEPT ![s] = text]
  /\ IF email # NoRecord
       THEN /\ db_email' = [db_email EXCEPT ![s] =
                              [email EXCEPT !.status = "FAILED", !.error = text]]
            /\ pc' = [pc EXCEPT ![s] = "except_commit"]
            /\ UNCHANGED result
       ELSE /\ db_email' = [db_email EXCEPT ![s] = email]
            /\ pc' = [pc EXCEPT ![s] = "exit"]
            /\ result' = [result EXCEPT ![s] = "None"]

\* handle_DATA up to the call of process_email: a message of type t with
\* attachments a is handed over by the SMTP server after its RCPT phase,
\* which ends here (the envelope keeps the accepted recipients)
DataStart(s, t, a) ==
  /\ pc[s] = "idle"
  /\ Authorized(s)
  /\ Len(rcpt_tos[s]) > 0
  /\ Len(store) < MaxRecords
  /\ msg' = [msg EXCEPT ![s] =
               [email_type |-> t, att |-> a, recipients |-> Recipients(s),
                rejected |-> Len(proposed[s]) > Len(rcpt_tos[s])]]
  /\ proposed' = [proposed EXCEPT ![s] = <<>>]
  /\ rcptReply' = [rcptReply EXCEPT ![s] = NoReply]
  /\ pc' = [pc EXCEPT ![s] = "extract"]
  /\ UNCHANGED <<sessions, fn, ex, out, br, auth, rcpt_tos, db_email, cur, saved, caught, handler, calls,
                 result, dataReply, store, clock, reroutes>>

\* process_email, lines 42-70: _extract_email_content raises on an
\* attachment without a decodable payload (len(None)), outside any try
Extract(s) ==
  /\ pc[s] = "extract"
  /\ IF ExtractEmailContent(MimeOf(msg[s].att)).raised
       THEN Except(s, ExtractError, db_email[s])
       ELSE /\ pc' = [pc EXCEPT ![s] = "save_commit"]
            /\ UNCHANGED <<db_email, caught, result>>
  /\ UNCHANGED <<sessions, fn, ex, out, br, auth, envVars, msg, cur, saved, handler, calls, dataReply,
                 store, clock, reroutes>>

\* _save_email: db.add(db_email); await db.commit()
SaveCommit(s) ==
  /\ pc[s] = "save_commit"
  /\ calls' = [calls EXCEPT ![s].save = @ + 1]
  /\ \/ /\ store' = Append(store, NewRow)
        /\ cur' = [cur EXCEPT ![s] = Len(store) + 1]
        /\ saved' = [saved EXCEPT ![s] = JoinComma(msg[s].recipients)]
        /\ pc' = [pc EXCEPT ![s] = "save_refresh"]
        /\ UNCHANGED <<db_email, caught, result>>
     \/ /\ \E text \in StoreErrors : Except(s, text, db_email[s])
        /\ UNCHANGED <<store, cur, saved>>
  /\ UNCHANGED <<sessions, fn, ex, out, br, auth, envVars, msg, handler, dataReply, clock, reroutes>>

\* _save_email: await db.refresh(db_email); return db_email
SaveRefresh(s) ==
  /\ pc[s] = "save_refresh"
  /\ \/ /\ db_email' = [db_email EXCEPT ![s] =
                        Loaded(cur[s], msg[s].email_type,
                               ExtractEmailContent(MimeOf(msg[s].att)).body)]
        /\ pc' = [pc EXCEPT ![s] =
                    IF ExtractEmailContent(MimeOf(msg[s].att)).attachments # <<>>
                      THEN "attach"
                    ELSE HandlerEntry(msg[s].email_type)]
        /\ UNCHANGED <<caught, result>>
     \/ \E text \in StoreErrors : Except(s, text, db_email[s])
  /\ UNCHANGED <<sessions, fn, ex, out, br, auth, envVars, msg, cur, saved, handler, calls, dataReply,
                 store, clock, reroutes>>

\* _process_attachments: the rows are added, then await db.commit()
ProcessAttachments(s) ==
  /\ pc[s] = "attach"
  /\ calls' = [calls EXCEPT ![s].attach = @ + 1]
  /\ \/ /\ pc' = [pc EXCEPT ![s] = HandlerEntry(msg[s].email_type)]
        /\ UNCHANGED <<db_email, caught, result>>
     \/ \E text \in StoreErrors : Except(s, text, db_email[s])
  /\ UNCHANGED <<sessions, fn, ex, out, br, auth, envVars, msg, cur, saved, handler, dataReply,
                 store, clock, reroutes>>

\* _route_email with a failed notification reaching its except branch
RouteSetPropagating(s, raised, text) ==
  LET failed == raised \/ calls'[s].notify > calls'[s].fetched
      what == IF raised THEN text ELSE "template error"
  IN /\ handler' = [handler EXCEPT ![s] =
                      [outcome |-> IF failed THEN "raised" ELSE "ok", text |-> what]]
     /\ db_email' = [db_email EXCEPT ![s] = RouteResult(@, failed, what, clock)]
     /\ clock' = clock + 1
     /\ pc' = [pc EXCEPT ![s] = "route_commit"]

\* _route_email after its handler returned or raised: status, error and
\* processed_at are assigned, then the task awaits db.commit()
RouteSet(s, raised, text) ==
  /\ handler' = [handler EXCEPT ![s] =
                   [outcome |-> IF raised THEN "raised" ELSE "ok", text |-> text]]
  /\ db_email' = [db_email EXCEPT ![s] = RouteResult(@, raised, text, clock)]
  /\ clock' = clock + 1
  /\ pc' = [pc EXCEPT ![s] = "route_commit"]

\* _handle_infra_request: await api_client.create_infrastructure_request
HandleInfraRequest(s) ==
  /\ pc[s] = "api"
  /\ calls' = [calls EXCEPT ![s].api = @ + 1, ![s].route = @ + 1]
  /\ \/ /\ pc' = [pc EXCEPT ![s] = "notify"]
        /\ db_email' = [db_email EXCEPT ![s] = Attached(@)]
        /\ UNCHANGED <<handler, clock>>
     \/ \E text \in ApiErrors : RouteSet(s, TRUE, text)
  /\ UNCHANGED <<sessions, fn, ex, out, br, auth, envVars, msg, cur, saved, caught, result, dataReply,
                 store, reroutes>>

\* _send_confirmation_email / _send_unsubscribe_confirmation: the template
\* is fetched and rendered; an exception is logged and not re-raised
SendConfirmation(s) ==
  /\ pc[s] = "notify"
  /\ \E outcome \in TemplateOutcomes :
       calls' = [calls EXCEPT ![s] = Notified(@, msg[s].email_type, outcome)]
  /\ RouteSet(s, FALSE, NoExc)
  /\ UNCHANGED <<sessions, fn, ex, out, br, auth, envVars, msg, cur, saved, caught, result, dataReply,
                 store, reroutes>>

\* _handle_standard_email: logging only
HandleStandard(s) ==
  /\ pc[s] = "standard"
  /\ calls' = [calls EXCEPT ![s].route = @ + 1]
  /\ RouteSet(s, FALSE, NoExc)
  /\ UNCHANGED <<sessions, fn, ex, out, br, auth, envVars, msg, cur, saved, caught, result, dataReply,
                 store, reroutes>>

\* _route_email: db.add(email); await db.commit(); then process_email
\* returns db_email, or catches what the commit raised
RouteCommit(s) ==
  /\ pc[s] = "route_commit"
  /\ \/ /\ store' = Committed(db_email[s])
        /\ result' = [result EXCEPT ![s] = "record"]
        /\ pc' = [pc EXCEPT ![s] = "exit"]
        /\ UNCHANGED <<db_email, caught>>
     \/ /\ \E text \in StoreErrors : Except(s, text, db_email[s])
        /\ UNCHANGED store
  /\ UNCHANGED <<sessions, fn, ex, out, br, auth, envVars, msg, cur, saved, handler, calls, dataReply,
                 clock, reroutes>>

\* process_email, lines 87-96: the error state is committed; a failure of
\* that commit is logged; None is returned either way
ExceptCommit(s) ==
  /\ pc[s] = "except_commit"
  /\ \/ store' = Committed(db_email[s])
     \/ UNCHANGED store
  /\ result' = [result EXCEPT ![s] = "None"]
  /\ pc' = [pc EXCEPT ![s] = "exit"]
  /\ UNCHANGED <<sessions, fn, ex, out, br, auth, envVars, msg, db_email, cur, saved, caught, handler, calls,
                 dataReply, clock, reroutes>>

\* handle_DATA after process_email returned: the session context exits
\* and 250 is returned; 451 if leaving the context raised
DataEnd(s) ==
  /\ pc[s] = "exit"
  /\ \E code \in {250, 451} : dataReply' = [dataReply EXCEPT ![s] = code]
  /\ pc' = [pc EXCEPT ![s] = "idle"]
  /\ rcpt_tos' = [rcpt_tos EXCEPT ![s] = <<>>]
  /\ UNCHANGED <<sessions, fn, ex, out, br, auth, proposed, rcptReply, msg, db_email, cur, saved, caught,
                 handler, calls, result, store, clock, reroutes>>

\* the session is aborted while its task is suspended: CancelledError is
\* not an Exception, so no except clause of the pipeline handles it
Cancel(s) ==
  /\ pc[s] \in AwaitPcs
  /\ pc' = [pc EXCEPT ![s] = "aborted"]
  /\ UNCHANGED <<sessions, fn, ex, out, br, auth, envVars, taskVars, store, clock, reroutes>>

\* _route_email invoked once more on the record process_email returned;
\* the handler raises (text) or not, and the commit succeeds or not
RouteAgain(s, raised, text, commits) ==
  /\ pc[s] = "idle"
  /\ result[s] = "record"
  /\ reroutes < MaxReroutes
  /\ raised => msg[s].email_type = "INFRA_REQUEST" /\ text \in ApiErrors
  /\ ~raised => text = NoExc
  /\ reroutes' = reroutes + 1
  /\ handler' = [handler EXCEPT ![s] =
                   [outcome |-> IF raised THEN "raised" ELSE "ok", text |-> text]]
  /\ db_email' = [db_email EXCEPT ![s] =
                    RouteResult(IF ~raised /\ msg[s].email_type = "INFRA_REQUEST"
                                  THEN Attached(@) ELSE @,
                                raised, text, clock)]
  /\ clock' = clock + 1
  /\ store' = IF commits THEN Committed(db_email'[s]) ELSE store
  /\ UNCHANGED <<sessions, fn, ex, out, br, auth, pc, envVars, msg, cur, saved, caught, calls, result, dataReply>>

Next ==
  \/ \E s \in sessions, auth_data \in AuthData : Authenticate(s, auth_data)
  \/ \E s \in sessions, address \in Addresses : HandleRcpt(s, address)
  \/ \E s \in sessions, t \in InboundTypes, a \in AttachmentKinds : DataStart(s, t, a)
  \/ \E s \in sessions : Extract(s)
  \/ \E s \in sessions : SaveCommit(s)
  \/ \E s \in sessions : SaveRefresh(s)
  \/ \E s \in sessions : ProcessAttachments(s)
  \/ \E s \in sessions : HandleInfraRequest(s)
  \/ \E s \in sessions : SendConfirmation(s)
  \/ \E s \in sessions : HandleStandard(s)
  \/ \E s \in sessions : RouteCommit(s)
  \/ \E s \in sessions : ExceptCommit(s)
  \/ \E s \in sessions : DataEnd(s)
  \/ \E s \in sessions : Cancel(s)

Spec == Init /\ [][Next]_vars

\* the pipeline together with direct re-invocations of _route_email
Reroute ==
  \E s \in sessions, raised \in BOOLEAN, text \in ApiErrors \cup {NoExc},
     commits \in BOOLEAN : RouteAgain(s, raised, text, commits)

NextReroute == Next \/ Reroute

SpecReroute == Init /\ [][NextReroute]_vars

\* _determine_email_type and _parse_infra_request called directly, as the
\* unit tests call them, on every text of Subjects x Bodies x Senders
InitClassify ==
  /\ InitWith({})
  /\ ex = NoExtract
  /\ out = NoSend
  /\ br = NoBridge
  /\ fn \in {[NoCall EXCEPT !.subject = subject, !.body = body, !.sender = sender] :
               subject \in Subjects, body \in Bodies, sender \in Senders}

Classify ==
  /\ ~fn.classified
  /\ fn' = [fn EXCEPT !.classified = TRUE,
                       !.email_type =
                         DetermineEmailType(fn.subject, fn.body, fn.sender, <<>>)]
  /\ UNCHANGED <<ex, out, br, pipeVars>>

ParseRequest ==
  /\ ~fn.parsed
  /\ fn' = [fn EXCEPT !.parsed = TRUE,
                       !.request = ParseInfraRequest(fn.subject, fn.body, fn.sender)]
  /\ UNCHANGED <<ex, out, br, pipeVars>>

NextClassify ==
  \/ Classify
  \/ ParseRequest

SpecClassify == InitClassify /\ [][NextClassify]_vars

\* _extract_email_content called directly, as the unit tests call it, on
\* every message of Messages
InitExtract ==
  /\ InitWith({})
  /\ fn = NoCall
  /\ out = NoSend
  /\ br = NoBridge
  /\ ex \in {[NoExtract EXCEPT !.msg = m] : m \in Messages}

ExtractContent ==
  /\ ~ex.extracted
  /\ ex' = [ex EXCEPT !.extracted = TRUE, !.content = ExtractEmailContent(ex.msg)]
  /\ UNCHANGED <<fn, out, br, pipeVars>>

NextExtract == ExtractContent

SpecExtract == InitExtract /\ [][NextExtract]_vars

\* the listener serving two sessions at once, the second one opened by a
\* client that does not know the configured credential pair
InitSessions == InitWith(SessionIds) /\ fn = NoCall /\ ex = NoExtract /\ out = NoSend /\ br = NoBridge

OutsiderData == {[kind |-> "pair", login |-> "admin", password |-> "Secret"]}

NextSessions ==
  \/ \E auth_data \in AuthData : Authenticate("s1", auth_data)
  \/ \E auth_data \in OutsiderData : Authenticate("s2", auth_data)
  \/ \E s \in sessions, address \in Addresses : HandleRcpt(s, address)
  \/ \E s \in sessions, t \in InboundTypes, a \in AttachmentKinds : DataStart(s, t, a)
  \/ \E s \in sessions : Extract(s)
  \/ \E s \in sessions : SaveCommit(s)
  \/ \E s \in sessions : SaveRefresh(s)
  \/ \E s \in sessions : ProcessAttachments(s)
  \/ \E s \in sessions : HandleInfraRequest(s)
  \/ \E s \in sessions : SendConfirmation(s)
  \/ \E s \in sessions : HandleStandard(s)
  \/ \E s \in sessions : RouteCommit(s)
  \/ \E s \in sessions : ExceptCommit(s)
  \/ \E s \in sessions : DataEnd(s)
  \/ \E s \in sessions : Cancel(s)

SpecSessions == InitSessions /\ [][NextSessions]_vars

\* ------------------------------------------- response_sender.py
\* the names bound at module level of response_sender.py (lines 1-18)
ModuleNames ==
  {"logging", "smtplib", "ssl", "MIMEMultipart", "MIMEText", "MIMEApplication",
   "formataddr", "make_msgid", "formatdate", "Dict", "List", "Optional", "Union",
   "BinaryIO", "Any", "Path", "aiosmtplib", "Environment", "FileSystemLoader",
   "settings", "Email", "EmailStatus", "EmailType", "EmailCreate",
   "EmailAttachmentCreate", "async_session", "logger"}

\* the global names _update_email_status looks up before its commit
UpdateNames(status) ==
  IF status \in {"SENT", "PROCESSED", "FAILED"}
    THEN {"async_session", "select", "Email", "EmailStatus", "datetime"}
    ELSE {"async_session", "select", "Email", "EmailStatus"}

\* _update_email_status reaches its commit only if every name it uses is
\* bound; a NameError is caught and logged (lines 388-390)
UpdateRuns(status) == UpdateNames(status) \subseteq ModuleNames

\* _update_email_status, lines 370-386: the row takes the status, and the
\* error if it is truthy; commits tells whether session.commit() returned
UpdateEmailStatus(rows, id, status, error, commits) ==
  IF UpdateRuns(status) /\ commits /\ id \in 1..Len(rows)
    THEN [rows EXCEPT ![id] =
            [@ EXCEPT !.status = status,
                      !.error = IF error \notin {Unset, ""} THEN error ELSE @]]
    ELSE rows

BodyTypes == {"plain", "html"}
TemplateNames == {Unset, "infra_request_confirmation"}

\* what _create_mime_message may raise, as str(e)
MimeErrors == {"", "mime error"}

\* _create_email_record, lines 216-232: the row as EmailCreate describes it
OutboundRow(body_type, template) ==
  [status |-> "PENDING", error |-> Unset,
   content_type |-> IF body_type = "plain" THEN "text/plain" ELSE "text/html",
   template |-> template]

\* send_email is called
SendEmail(body_type, template) ==
  /\ out.pc \in {"idle", "returned"}
  /\ Len(out.rows) < MaxSends
  /\ out' = [NoSend EXCEPT !.pc = "create_commit", !.rows = out.rows,
                           !.body_type = body_type, !.template = template]
  /\ UNCHANGED <<fn, ex, br, pipeVars>>

\* the except clause of send_email, lines 121-132, entered with str(e) = text
SendExcept(o, text) ==
  IF o.id # 0
    THEN [o EXCEPT !.raised = text, !.pc = "update",
                   !.upd = [status |-> "FAILED", error |-> text],
                   !.returned = "False"]
    ELSE [o EXCEPT !.raised = text, !.pc = "returned", !.returned = "False"]

\* _create_email_record: session.add(db_email); await session.commit()
CreateCommit ==
  /\ out.pc = "create_commit"
  /\ \/ out' = [out EXCEPT !.rows = Append(@, OutboundRow(out.body_type, out.template)),
                           !.created = Len(out.rows) + 1,
                           !.pc = "create_refresh"]
     \/ \E text \in StoreErrors : out' = SendExcept(out, text)
  /\ UNCHANGED <<fn, ex, br, pipeVars>>

\* _create_email_record: await session.refresh(db_email); then send_email
\* binds email_data and builds the MIME message (lines 91-107)
CreateRefresh ==
  /\ out.pc = "create_refresh"
  /\ \/ out' = [out EXCEPT !.id = out.created, !.pc = "smtp"]
     \/ \E text \in MimeErrors :
          out' = SendExcept([out EXCEPT !.id = out.created], text)
     \/ \E text \in StoreErrors : out' = SendExcept(out, text)
  /\ UNCHANGED <<fn, ex, br, pipeVars>>

\* _send_smtp returns True, or False after logging what it caught; the
\* status update of lines 113-117 is asked for
SendSmtp ==
  /\ out.pc = "smtp"
  /\ \E success \in BOOLEAN :
       out' = [out EXCEPT !.pc = "update",
                          !.upd = IF success
                                    THEN [status |-> "SENT", error |-> Unset]
                                    ELSE [status |-> "FAILED",
                                          error |-> "Failed to send email"],
                          !.returned = IF success THEN "True" ELSE "False"]
  /\ UNCHANGED <<fn, ex, br, pipeVars>>

\* _update_email_status runs and send_email returns
UpdateStatus ==
  /\ out.pc = "update"
  /\ \E commits \in BOOLEAN :
       out' = [out EXCEPT !.rows = UpdateEmailStatus(@, out.id, out.upd.status,
                                                      out.upd.error, commits),
                          !.pc = "returned"]
  /\ UNCHANGED <<fn, ex, br, pipeVars>>

InitSend ==
  /\ InitWith({})
  /\ fn = NoCall
  /\ ex = NoExtract
  /\ out = NoSend
  /\ br = NoBridge

NextSend ==
  \/ \E body_type \in BodyTypes, template \in TemplateNames : SendEmail(body_type, template)
  \/ CreateCommit
  \/ CreateRefresh
  \/ SendSmtp
  \/ UpdateStatus

SpecSend == InitSend /\ [][NextSend]_vars

\* ------------------------------------------------- the IMAP bridge (main.py)
\* what mail.fetch and _parse_email make of one message: fetch answers a
\* status other than OK, fetch raises, parsing raises inside _parse_email,
\* the stripped body is empty, or an InfrastructureRequest is returned
MessageKinds == {"fetch_no", "fetch_raises", "parse_raises", "empty", "request"}

\* what requests.post does: a status with a body that is a non-empty JSON
\* object, the JSON object {}, or no JSON at all; or an exception
ApiAnswers ==
  [status : {"200", "202"}, json : {"object", "empty", "invalid"}]
    \cup [status : {"500", "timeout", "connection"}, json : {Unset}]

NoAnswer == [status |-> Unset, json |-> Unset]

\* smtplib in _send_email
SmtpOutcomes == {"sent", "raises"}

\* _send_to_api: response.json() for 200 and 202, where a body that is not
\* JSON raises into `except Exception`; None in every other case
SendToApi(answer) ==
  IF answer.status \in {"200", "202"} /\ answer.json # "invalid"
  THEN answer.json
  ELSE Unset

\* `if response:` in _process_email: None and {} are both false
Truthy(response) == response \notin {Unset, "empty"}

\* one call of _process_email: the calls it made and where it raised
ProcessedEmail(kind, answer, smtp) ==
  IF kind # "request"
  THEN [kind |-> kind, api |-> 0, answer |-> NoAnswer, success |-> 0,
        error |-> 0,
        raised |-> CASE kind = "fetch_raises" -> "fetch"
                     [] kind = "parse_raises" -> "parse"
                     [] OTHER -> NoExc]
  ELSE LET response == SendToApi(answer) IN
       [kind |-> kind, api |-> 1, answer |-> answer,
        success |-> IF Truthy(response) THEN 1 ELSE 0,
        error |-> IF Truthy(response) THEN 0 ELSE 1,
        raised |-> IF smtp = "raises" THEN "answer" ELSE NoExc]

\* the test of `while self.running` with the loop never left
LoopExitNever(running) == "check"

\* the test of `while self.running`
LoopExit(running) == IF running THEN "check" ELSE "returned"

\* start() up to the loop
Start ==
  /\ br.pc = "new"
  /\ br' = IF br.configured
           THEN [br EXCEPT !.running = TRUE, !.pc = "test"]
           ELSE [br EXCEPT !.pc = "returned"]
  /\ UNCHANGED <<fn, ex, out, pipeVars>>

\* stop(), called from another thread or a signal handler
Stop ==
  /\ br.running
  /\ br' = [br EXCEPT !.running = FALSE]
  /\ UNCHANGED <<fn, ex, out, pipeVars>>

LoopTest ==
  /\ br.pc = "test"
  /\ br' = [br EXCEPT !.pc = LoopExit(br.running)]
  /\ UNCHANGED <<fn, ex, out, pipeVars>>

\* _check_emails up to its for loop: connecting, logging in, selecting or
\* searching raises, the search answers a status other than OK, or it
\* answers OK with the ids of `messages`
CheckEmails(outcome, messages) ==
  /\ br.pc = "check"
  /\ br' = IF outcome = "OK" /\ messages # <<>>
           THEN [br EXCEPT !.polled = TRUE, !.batch = messages,
                           !.done = <<>>, !.pc = "batch"]
           ELSE [br EXCEPT !.polled = TRUE, !.batch = <<>>, !.done = <<>>,
                           !.pc = "sleep"]
  /\ UNCHANGED <<fn, ex, out, pipeVars>>

\* one round of the for loop of _check_emails
ProcessEmail(answer, smtp) ==
  /\ br.pc = "batch"
  /\ LET k == Len(br.done) + 1
         log == ProcessedEmail(br.batch[k], answer, smtp) IN
     br' = [br EXCEPT !.done = Append(@, log),
                      !.pc = IF k = Len(br.batch) THEN "sleep" ELSE "batch"]
  /\ UNCHANGED <<fn, ex, out, pipeVars>>

\* time.sleep(check_interval): it returns, or raises ValueError for a
\* negative interval, which `except Exception` of start() catches
Sleep(outcome) ==
  /\ br.pc = "sleep"
  /\ br' = [br EXCEPT !.batch = <<>>, !.done = <<>>,
                      !.pc = IF outcome = "raises" THEN "backoff" ELSE "test"]
  /\ UNCHANGED <<fn, ex, out, pipeVars>>

\* time.sleep(60) in the handler of start()
Backoff ==
  /\ br.pc = "backoff"
  /\ br' = [br EXCEPT !.pc = "test"]
  /\ UNCHANGED <<fn, ex, out, pipeVars>>

\* KeyboardInterrupt: inside the try of start() it breaks the loop and
\* start() returns; in the handler's sleep or at the loop test it leaves
\* start() as an exception
KeyboardInterrupt ==
  /\ br.pc \in {"test", "check", "batch", "sleep", "backoff"}
  /\ br' = [br EXCEPT !.interrupted = TRUE,
                      !.pc = IF br.pc \in {"check", "batch", "sleep"}
                             THEN "returned" ELSE "raised"]
  /\ UNCHANGED <<fn, ex, out, pipeVars>>

Batches == UNION {[1..n -> MessageKinds] : n \in 0..MaxBatch}

InitBridge ==
  /\ InitWith({})
  /\ fn = NoCall
  /\ ex = NoExtract
  /\ out = NoSend
  /\ br \in {[NoBridge EXCEPT !.configured = c] : c \in BOOLEAN}

\* the steps of the thread that runs start()
LoopStep ==
  \/ LoopTest
  \/ \E outcome \in {"OK", "NO", "raises"}, messages \in Batches :
       CheckEmails(outcome, messages)
  \/ \E answer \in ApiAnswers, smtp \in SmtpOutcomes : ProcessEmail(answer, smtp)
  \/ \E outcome \in {"returns", "raises"} : Sleep(outcome)
  \/ Backoff

NextBridge ==
  \/ Start
  \/ Stop
  \/ LoopTest
  \/ \E outcome \in {"OK", "NO", "raises"}, messages \in Batches :
       CheckEmails(outcome, messages)
  \/ \E answer \in ApiAnswers, smtp \in SmtpOutcomes : ProcessEmail(answer, smtp)
  \/ \E outcome \in {"returns", "raises"} : Sleep(outcome)
  \/ Backoff
  \/ KeyboardInterrupt

SpecBridge == InitBridge /\ [][NextBridge]_vars

\* every call the loop makes returns or raises: the thread of start() is
\* never stuck in IMAP, HTTP, SMTP or sleep
SpecBridgeFair == SpecBridge /\ WF_vars(LoopStep)

\* two sessions that have authenticated with the configured pair and had
\* one recipient accepted each, their handle_DATA tasks interleaved at
\* every await
ConfiguredPair == [kind |-> "pair", login |-> SMTP_USERNAME, password |-> SMTP_PASSWORD]

InitConcurrent ==
  /\ sessions = SessionIds
  /\ auth = [s \in SessionIds |->
               [authenticated |-> TRUE, data |-> ConfiguredPair,
                outcome |-> AuthChecker(ConfiguredPair).outcome,
                handled |-> AuthChecker(ConfiguredPair).handled,
                audit |-> AuthChecker(ConfiguredPair).audit]]
  /\ pc = [s \in SessionIds |-> "idle"]
  /\ proposed = [s \in SessionIds |-> <<<<"u", "@">> \o EMAIL_DOMAIN>>]
  /\ rcpt_tos = [s \in SessionIds |-> <<<<"u", "@">> \o EMAIL_DOMAIN>>]
  /\ rcptReply = [s \in SessionIds |-> 250]
  /\ msg = [s \in SessionIds |-> NoMsg]
  /\ db_email = [s \in SessionIds |-> NoRecord]
  /\ cur = [s \in SessionIds |-> 0]
  /\ saved = [s \in SessionIds |-> <<>>]
  /\ caught = [s \in SessionIds |-> NoExc]
  /\ handler = [s \in SessionIds |-> NoHandler]
  /\ calls = [s \in SessionIds |-> NoCalls]
  /\ result = [s \in SessionIds |-> "pending"]
  /\ dataReply = [s \in SessionIds |-> NoReply]
  /\ store = <<>>
  /\ clock = 1
  /\ reroutes = 0
  /\ fn = NoCall
  /\ ex = NoExtract
  /\ out = NoSend
  /\ br = NoBridge

\* one category for each branch of the dispatch of _route_email
RoutedTypes == {"STANDARD", "UNSUBSCRIBE", "INFRA_REQUEST"}

NextConcurrent ==
  \/ \E s \in sessions, t \in RoutedTypes, a \in AttachmentKinds : DataStart(s, t, a)
  \/ \E s \in sessions : Extract(s)
  \/ \E s \in sessions : SaveCommit(s)
  \/ \E s \in sessions : SaveRefresh(s)
  \/ \E s \in sessions : ProcessAttachments(s)
  \/ \E s \in sessions : HandleInfraRequest(s)
  \/ \E s \in sessions : SendConfirmation(s)
  \/ \E s \in sessions : HandleStandard(s)
  \/ \E s \in sessions : RouteCommit(s)
  \/ \E s \in sessions : ExceptCommit(s)
  \/ \E s \in sessions : DataEnd(s)
  \/ \E s \in sessions : Cancel(s)

SpecConcurrent == InitConcurrent /\ [][NextConcurrent]_vars

TypeOK ==
  /\ sessions \subseteq SessionIds
  /\ \A s \in SessionIds : auth[s].data \in AuthData
  /\ pc \in [SessionIds -> Pcs]
  /\ \A s \in SessionIds :
       /\ Len(rcpt_tos[s]) <= MaxRcpt
       /\ Len(proposed[s]) <= MaxRcpt
       /\ result[s] \in {"pending", "None", "record"}
       /\ dataReply[s] \in {NoReply, 250, 451}
  /\ Len(store) <= MaxRecords

\* ================================================================= claims
Terminal == {"PROCESSED", "FAILED"}

\* a row is in flight while the task that created it is inside handle_DATA
InFlight(i) ==
  \E s \in sessions : cur[s] = i /\ pc[s] \notin {"idle", "aborted"}

\* process_email has returned to handle_DATA
Returned(s) == pc[s] \in {"exit", "idle"} /\ result[s] # "pending"

\* "ends with '@' followed by the accepting domain", stated on positions
InDomain(address) ==
  \E i \in 1..Len(address) :
    /\ address[i] = "@"
    /\ Len(address) - i = Len(EMAIL_DOMAIN)
    /\ \A k \in 1..Len(EMAIL_DOMAIN) : address[i + k] = EMAIL_DOMAIN[k]

\* C1: the status of an EmailRecord, as an object and as a row, only ever
\* moves RECEIVED -> PROCESSED or RECEIVED -> FAILED.
C1_StatusOneDirectional ==
  [][ /\ \A s \in SessionIds :
           ( /\ db_email[s].id # 0
             /\ db_email'[s].id = db_email[s].id
             /\ db_email'[s].status # db_email[s].status )
           => ( /\ db_email[s].status = "RECEIVED"
                /\ db_email'[s].status \in Terminal )
      /\ \A i \in 1..Len(store) :
           store'[i].status # store[i].status
           => (store[i].status = "RECEIVED" /\ store'[i].status \in Terminal)
    ]_vars

\* C2: a message whose record ended FAILED with error text is answered 451.
C2_FailedRecordReplies451 ==
  \A s \in SessionIds :
    ( /\ dataReply[s] # NoReply
      /\ db_email[s].status = "FAILED"
      /\ db_email[s].error # Unset )
    => dataReply[s] = 451

\* C3: a message process_email reported as unprocessed is answered 451, and
\* 250 is only given when the pipeline ran without a failure.
C3_UnprocessedReplies451 ==
  \A s \in SessionIds :
    /\ (dataReply[s] # NoReply /\ result[s] = "None") => dataReply[s] = 451
    /\ dataReply[s] = 250 => (result[s] = "record" /\ caught[s] = NoExc)

\* C4: after a failed API call for an INFRA_REQUEST message the record is
\* FAILED with a non-empty error, no confirmation was attempted and the API
\* was called once.
C4_ApiFailureRecorded ==
  \A s \in SessionIds :
    ( /\ msg[s].email_type = "INFRA_REQUEST"
      /\ handler[s].outcome = "raised"
      /\ Returned(s) )
    => /\ db_email[s].status = "FAILED"
       /\ db_email[s].error \notin {Unset, ""}
       /\ calls[s].notify = 0
       /\ calls[s].api = 1

\* C5: a created row that is no longer in flight (its task returned, or was
\* cancelled) has a terminal status.
C5_CreatedRecordsTerminal ==
  \A i \in 1..Len(store) : ~InFlight(i) => store[i].status \in Terminal

\* C6: when _route_email has assigned the status, it is PROCESSED exactly if
\* the handler returned, with the error field unset, and FAILED with
\* the handler's exception text in the error field exactly if it raised.
C6_RouteStatusFollowsHandler ==
  \A s \in SessionIds :
    pc[s] = "route_commit" =>
      /\ handler[s].outcome \in {"ok", "raised"}
      /\ (handler[s].outcome = "ok") <=>
           (db_email[s].status = "PROCESSED" /\ db_email[s].error = Unset)
      /\ (handler[s].outcome = "raised") <=>
           (db_email[s].status = "FAILED" /\ db_email[s].error = handler[s].text)

\* C6 witness: _route_email has marked a record whose handler raised.
C6_Witness ==
  \E s \in SessionIds :
    /\ pc[s] = "route_commit"
    /\ handler[s].outcome = "raised"
    /\ db_email[s].status = "FAILED"
    /\ db_email[s].error = "api error"

\* C7: once processed_at of a record is set it keeps its value.
C7_ProcessedAtSetOnce ==
  [][ \A s \in SessionIds :
        ( /\ db_email[s].id # 0
          /\ db_email'[s].id = db_email[s].id
          /\ db_email[s].processed_at # NoTime )
        => db_email'[s].processed_at = db_email[s].processed_at
    ]_vars

\* C8: when process_email failed after the row was created, outside the
\* handler, the row is FAILED with the caught exception text.
C8_LateFailureMarkedInStore ==
  \A s \in SessionIds :
    (Returned(s) /\ result[s] = "None" /\ cur[s] # 0)
    => /\ store[cur[s]].status = "FAILED"
       /\ store[cur[s]].error = caught[s]

\* C9: when _save_email raised, process_email returns None and no row
\* exists for the message.
C9_SaveFailureLeavesNoRecord ==
  \A s \in SessionIds :
    ( /\ Returned(s)
      /\ caught[s] \in StoreErrors
      /\ db_email[s] = NoRecord )
    => (result[s] = "None" /\ cur[s] = 0)

\* C10: during the RCPT phase of a transaction the envelope's recipients
\* are exactly the proposed addresses that end with '@' + domain, in order,
\* and each reply is 250 for such an address and 550 for any other, whatever
\* was rejected before it.
C10_RcptAcceptsExactlyDomain ==
  \A s \in SessionIds :
    pc[s] = "idle" =>
      /\ rcpt_tos[s] = SelectSeq(proposed[s], InDomain)
      /\ proposed[s] # <<>> =>
           rcptReply[s] = IF InDomain(proposed[s][Len(proposed[s])]) THEN 250 ELSE 550
      /\ proposed[s] = <<>> => rcptReply[s] = NoReply

\* C10 witness: an in-domain recipient accepted after a rejected one.
C10_Witness ==
  \E s \in SessionIds :
    /\ Len(proposed[s]) = 2
    /\ ~InDomain(proposed[s][1])
    /\ InDomain(proposed[s][2])
    /\ rcptReply[s] = 250
    /\ rcpt_tos[s] = <<proposed[s][2]>>

\* the addresses of a comma-joined recipients column
RECURSIVE SplitComma(_)
SplitComma(text) ==
  IF \A i \in 1..Len(text) : text[i] # ","
    THEN <<text>>
    ELSE LET i == CHOOSE k \in 1..Len(text) :
                    text[k] = "," /\ \A j \in 1..(k - 1) : text[j] # ","
         IN <<SubSeq(text, 1, i - 1)>> \o SplitComma(SubSeq(text, i + 1, Len(text)))

\* C11: every recipient stored on the row of an inbound message ends with
\* '@' + domain, the row has at least one recipient, and a message enters
\* the pipeline only with an accepted recipient, so a transaction whose
\* recipients were all rejected creates no row.
C11_StoredRecipientsInDomain ==
  \A s \in SessionIds :
    /\ cur[s] # 0 =>
         /\ saved[s] # <<>>
         /\ \A i \in 1..Len(SplitComma(saved[s])) : InDomain(SplitComma(saved[s])[i])
    /\ (pc[s] = "idle" /\ proposed[s] # <<>> /\ rcpt_tos[s] = <<>>) => cur[s] = 0
    /\ pc[s] # "idle" => msg[s].recipients # <<>>

\* C11 witness: a row saved for a message with an accepted recipient, in a
\* transaction in which another recipient was rejected.
C11_Witness ==
  \E s \in SessionIds :
    /\ cur[s] # 0
    /\ msg[s].rejected
    /\ SplitComma(saved[s]) = <<msg[s].recipients[1]>>
    /\ store[cur[s]].status = "RECEIVED"

\* the configured credential pair as a client presents it
ValidPair == [kind |-> "pair", login |-> "admin", password |-> "secret"]

\* handle_DATA has been entered for a message of session s
Submitted(s) ==
  pc[s] # "idle" \/ msg[s] # NoMsg \/ cur[s] # 0 \/ dataReply[s] # NoReply

\* C12: a session submits a message only after its own successful
\* authentication with the configured pair; a session that has not
\* authenticated, or whose attempts all failed, submits nothing, whatever
\* the other session has done.
C12_SubmissionOnlyAfterOwnAuth ==
  \A s \in SessionIds :
    /\ Submitted(s) =>
         /\ auth[s].authenticated
         /\ auth[s].outcome = "success"
         /\ auth[s].data = ValidPair
    /\ auth[s].outcome # "success" => (~auth[s].authenticated /\ rcpt_tos[s] = <<>>)

\* C12 witness: one session has authenticated and had a row saved while the
\* other, whose last attempt failed, has submitted nothing.
C12_Witness ==
  \E s, t \in SessionIds :
    /\ s # t
    /\ auth[s].authenticated
    /\ cur[s] # 0
    /\ auth[t].outcome = "failure"
    /\ auth[t].data.kind = "pair"
    /\ ~Submitted(t)

\* C13: an authentication attempt succeeds iff its data is the configured
\* login and password, and every other attempt is reported as a failure.
C13_SuccessIffExactMatch ==
  \A s \in SessionIds :
    auth[s].outcome # "none" =>
      /\ auth[s].outcome = "success" <=> auth[s].data = ValidPair
      /\ auth[s].data # ValidPair => auth[s].outcome = "failure"

\* C14: every failed attempt has left an audit log record, and the record is
\* the one any failed attempt with the same login and another password
\* leaves.
C14_FailedAttemptAudited ==
  \A s \in SessionIds :
    auth[s].outcome = "failure" =>
      /\ auth[s].audit # NoLog
      /\ \A p \in Passwords :
           LET other == AuthChecker([auth[s].data EXCEPT !.password = p]) IN
             other.outcome = "failure" => other.audit = auth[s].audit

\* ------------------------------------------------ classification claims
\* a and b are the same character up to letter case
SameLetter(a, b) ==
  a = b \/ \E k \in 1..Len(UpperCase) : {a, b} = {UpperCase[k], LowerCase[k]}

\* the phrase occurs in the text, letter case ignored
Mentions(text, phrase) ==
  \E i \in 0..(Len(text) - Len(phrase)) :
    \A j \in 1..Len(phrase) : SameLetter(text[i + j], phrase[j])

MentionsAny(text, phrases) ==
  \E k \in 1..Len(phrases) : Mentions(text, phrases[k])

\* the five categories of inbound mail
InboundCategories ==
  {"AUTO_REPLY", "BOUNCE", "UNSUBSCRIBE", "INFRA_REQUEST", "STANDARD"}

\* the ordered rule list: category, where the phrases are looked up, phrases
Rules == <<
  [category |-> "AUTO_REPLY", subject |-> TRUE, body |-> TRUE,
   phrases |-> auto_reply_indicators],
  [category |-> "BOUNCE", subject |-> TRUE, body |-> FALSE,
   phrases |-> bounce_terms],
  [category |-> "UNSUBSCRIBE", subject |-> FALSE, body |-> TRUE,
   phrases |-> unsubscribe_terms],
  [category |-> "INFRA_REQUEST", subject |-> TRUE, body |-> FALSE,
   phrases |-> infra_terms]
>>

RuleApplies(rule, subject, body) ==
  \/ rule.subject /\ MentionsAny(subject, rule.phrases)
  \/ rule.body /\ MentionsAny(body, rule.phrases)

RECURSIVE FirstMatch(_, _, _)
FirstMatch(rules, subject, body) ==
  IF rules = <<>> THEN "STANDARD"
  ELSE IF RuleApplies(Head(rules), subject, body) THEN Head(rules).category
  ELSE FirstMatch(Tail(rules), subject, body)

\* C15: a call of _determine_email_type returns one of the five inbound
\* categories, whatever the subject, body and sender: never nothing and
\* never OUTGOING.
C15_ClassifierTotalInbound ==
  fn.classified =>
    /\ fn.email_type \in InboundCategories
    /\ fn.email_type # "OUTGOING"

\* C15 witness: a text that matches no rule has been classified.
C15_Witness ==
  /\ fn.classified
  /\ fn.subject = SubjectReTest
  /\ fn.body = BodyNewDatabase
  /\ fn.email_type = "STANDARD"

C17_AutoReplyWins ==
  fn.classified =>
    /\ ( \/ MentionsAny(fn.subject, auto_reply_indicators)
         \/ MentionsAny(fn.body, auto_reply_indicators) )
       => fn.email_type = "AUTO_REPLY"
    /\ fn.subject = SubjectOutOfOffice => fn.email_type = "AUTO_REPLY"
    /\ fn.body = BodyAutomaticReply => fn.email_type = "AUTO_REPLY"

\* C17 witness: AUTO_REPLY returned for a subject that also matches the
\* BOUNCE rule, with a body that matches the UNSUBSCRIBE rule.
C17_Witness ==
  /\ fn.classified
  /\ MentionsAny(fn.subject, auto_reply_indicators)
  /\ MentionsAny(fn.subject, bounce_terms)
  /\ MentionsAny(fn.body, unsubscribe_terms)
  /\ fn.email_type = "AUTO_REPLY"

\* the subject announces a delivery failure
AnnouncesDeliveryFailure(subject) ==
  subject = SubjectDeliveryStatus \/ MentionsAny(subject, bounce_terms)

\* C18: a text whose subject announces a delivery failure and which
\* mentions no auto-reply phrase is classified BOUNCE; so is the
\* notification of the test, sent by MAILER-DAEMON.
C18_DeliveryFailureIsBounce ==
  ( /\ fn.classified
    /\ AnnouncesDeliveryFailure(fn.subject)
    /\ ~MentionsAny(fn.subject, auto_reply_indicators)
    /\ ~MentionsAny(fn.body, auto_reply_indicators) )
  => fn.email_type = "BOUNCE"

\* C19: the two unsubscribe requests of the test, expressed in the subject,
\* are classified UNSUBSCRIBE.
C19_SubjectUnsubscribeIsUnsubscribe ==
  ( /\ fn.classified
    /\ \/ fn.subject = SubjectUnsubscribe /\ fn.body = BodyRemoveMe
       \/ fn.subject = SubjectOptOut /\ fn.body = BodyOptOut )
  => fn.email_type = "UNSUBSCRIBE"

\* C20: the priority returned by _parse_infra_request is high when subject
\* or body mentions a high term, else low when one mentions a low term,
\* else normal; the subject of the test yields high.
C20_PriorityHighLowDefault ==
  fn.parsed =>
    /\ fn.request.priority =
         IF MentionsAny(fn.subject, priority_high) \/ MentionsAny(fn.body, priority_high)
           THEN "high"
         ELSE IF MentionsAny(fn.subject, priority_low) \/ MentionsAny(fn.body, priority_low)
           THEN "low"
         ELSE "normal"
    /\ fn.subject = SubjectUrgent => fn.request.priority = "high"

\* C20 witness: the subject of the test parsed with a body that mentions a
\* low term: the priority is high.
C20_Witness ==
  /\ fn.parsed
  /\ fn.subject = SubjectUrgent
  /\ MentionsAny(fn.body, priority_low)
  /\ fn.request.priority = "high"

\* C21: the environment returned by _parse_infra_request is production
\* when subject or body mentions 'prod', 'production' or 'live', else
\* staging when one mentions 'staging', 'pre-prod' or 'preprod', else
\* development.
C21_EnvironmentProductionStagingDefault ==
  fn.parsed =>
    fn.request.environment =
      IF MentionsAny(fn.subject, env_production) \/ MentionsAny(fn.body, env_production)
        THEN "production"
      ELSE IF MentionsAny(fn.subject, env_staging) \/ MentionsAny(fn.body, env_staging)
        THEN "staging"
      ELSE "development"

\* C21 witness: a subject that mentions 'staging' parsed with a body that
\* mentions a production term: the environment is production.
C21_Witness ==
  /\ fn.parsed
  /\ Mentions(fn.subject, env_staging[1])
  /\ MentionsAny(fn.body, env_production)
  /\ fn.request.environment = "production"

\* -------------------------------------------------- extraction claims
\* the parts of a message below a multipart root, or the message itself
Leaves(m) == IF m.root.is_multipart THEN m.parts ELSE <<m.root>>

\* a part that is no multipart container and whose Content-Disposition
\* mentions 'attachment', letter case ignored
IsAttachmentPart(part) ==
  part.maintype # "multipart" /\ Mentions(part.disposition, attachment)

\* a part that may supply the body
IsBodyCandidate(part) ==
  /\ part.maintype # "multipart"
  /\ ~IsAttachmentPart(part)
  /\ part.content_type \in {"text/plain", "text/html"}

\* a body candidate whose payload can be decoded
IsDecodable(part) ==
  IsBodyCandidate(part) /\ ~part.is_multipart /\ part.charset \in {"", "utf-8"}

\* the text of a part: its bytes, undecodable ones replaced, markup dropped
\* from HTML
TextOf(part) ==
  IF part.content_type = "text/html"
    THEN HtmlToText(Decode(part.payload))
    ELSE Decode(part.payload)

\* the first decodable body candidate in document order (0 if none)
FirstBodyPart(parts) ==
  IF \E i \in 1..Len(parts) : IsDecodable(parts[i])
    THEN CHOOSE i \in 1..Len(parts) :
           IsDecodable(parts[i]) /\ \A j \in 1..(i - 1) : ~IsDecodable(parts[j])
    ELSE 0

\* the first body candidate in document order that yields text (0 if none)
SupplyingPart(parts) ==
  IF \E i \in 1..Len(parts) : IsDecodable(parts[i]) /\ TextOf(parts[i]) # <<>>
    THEN CHOOSE i \in 1..Len(parts) :
           /\ IsDecodable(parts[i]) /\ TextOf(parts[i]) # <<>>
           /\ \A j \in 1..(i - 1) : ~(IsDecodable(parts[j]) /\ TextOf(parts[j]) # <<>>)
    ELSE 0

\* extraction of a multipart message has returned
MultipartExtracted ==
  ex.extracted /\ ex.msg.root.is_multipart /\ ~ex.content.raised

\* C22: the body of a multipart message is the text of its first part in
\* document order that is no container, no attachment and text/plain or
\* text/html (and can be decoded), whatever parts follow; for a plain text
\* part followed by an HTML part it is the plain text, without markup.
C22_BodyIsFirstTextPart ==
  MultipartExtracted =>
    /\ FirstBodyPart(ex.msg.parts) # 0 =>
         ex.content.body = TextOf(ex.msg.parts[FirstBodyPart(ex.msg.parts)])
    /\ (Len(ex.msg.parts) >= 2 /\ ex.msg.parts[1] = PlainPart
          /\ ex.msg.parts[2].content_type = "text/html") =>
         /\ ex.content.body = Decode(PlainPart.payload)
         /\ \A i \in 1..Len(ex.content.body) : ex.content.body[i] \notin {"<", ">"}

\* C23: the content type returned for a multipart message is the one of
\* the part that supplied the body, whatever parts follow it; for a plain
\* text part followed by an HTML part it is text/plain.
C23_ContentTypeOfBodyPart ==
  MultipartExtracted =>
    /\ SupplyingPart(ex.msg.parts) # 0 =>
         ex.content.content_type =
           ex.msg.parts[SupplyingPart(ex.msg.parts)].content_type
    /\ (Len(ex.msg.parts) >= 2 /\ ex.msg.parts[1] = PlainPart
          /\ ex.msg.parts[2].content_type = "text/html") =>
         ex.content.content_type = "text/plain"

\* C24: extracting a single-part text/plain message yields content type
\* text/plain and no attachments, and a body that is its payload byte for
\* byte, with U+FFFD for each byte the charset does not have.
C24_SinglePlainRoundTrip ==
  ( /\ ex.extracted
    /\ ~ex.msg.root.is_multipart
    /\ ex.msg.root.content_type = "text/plain" )
  => /\ ~ex.content.raised
     /\ ex.content.content_type = "text/plain"
     /\ ex.content.attachments = <<>>
     /\ ex.msg.root.charset \in {"", "utf-8"} =>
          /\ Len(ex.content.body) = Len(ex.msg.root.payload)
          /\ \A i \in 1..Len(ex.content.body) :
               ex.content.body[i] =
                 IF ex.msg.root.payload[i] = InvalidByte
                   THEN ReplacementChar ELSE ex.msg.root.payload[i]

\* C24 witness: a single-part plain text message with a byte that is not
\* UTF-8 has been extracted, and its body holds U+FFFD.
C24_Witness ==
  /\ ex.extracted
  /\ ~ex.msg.root.is_multipart
  /\ ex.msg.root.content_type = "text/plain"
  /\ \E i \in 1..Len(ex.msg.root.payload) : ex.msg.root.payload[i] = InvalidByte
  /\ \E i \in 1..Len(ex.content.body) : ex.content.body[i] = ReplacementChar

\* C25: extraction returns one descriptor for every attachment part, in
\* document order, with the part's filename, content type, bytes and byte
\* count, and the body is not the text of an attachment part, for
\* multipart and single-part messages alike.
C25_AttachmentPartsBecomeDescriptors ==
  ex.extracted =>
    LET atts == SelectSeq(Leaves(ex.msg), IsAttachmentPart) IN
      /\ ~ex.content.raised
      /\ Len(ex.content.attachments) = Len(atts)
      /\ \A i \in 1..Len(atts) :
           /\ ex.content.attachments[i].content_type = atts[i].content_type
           /\ ex.content.attachments[i].data = atts[i].payload
           /\ ex.content.attachments[i].size = Len(atts[i].payload)
           /\ atts[i].filename # "" =>
                ex.content.attachments[i].filename = <<atts[i].filename>>
      /\ ex.content.body # <<>> => SupplyingPart(Leaves(ex.msg)) # 0

\* C26: a part that cannot be decoded never makes _extract_email_content
\* raise: extraction of the message of every DATA returns normally and
\* process_email never catches an extraction error.
C26_DecodingFailureSkipped ==
  \A s \in SessionIds :
    /\ caught[s] # ExtractError
    /\ msg[s] # NoMsg => ~ExtractEmailContent(MimeOf(msg[s].att)).raised

\* ----------------------------------------------------- routing claims
\* the category handler of the message of s has returned or raised
Routed(s) == handler[s].outcome # "none"

\* the API call for the INFRA_REQUEST message of s returned a response
ApiSucceeded(s) ==
  /\ msg[s].email_type = "INFRA_REQUEST"
  /\ calls[s].api = 1
  /\ pc[s] = "notify" \/ handler[s].outcome = "ok"

ConfirmationKeys ==
  {"request_id", "title", "description", "status", "priority", "environment",
   "created_at", "user_email"}

\* C27: after a successful API call for an INFRA_REQUEST message the
\* request id and the API response are in the record's metadata before the
\* confirmation is attempted; the confirmation is attempted once, and a
\* confirmation that was rendered carries the eight context entries and
\* was handed to the response sender exactly once.
C27_ConfirmationSentOnce ==
  \A s \in SessionIds :
    ApiSucceeded(s) =>
      /\ db_email[s].metadata = "headers+request"
      /\ pc[s] = "notify" => calls[s].notify = 0
      /\ Routed(s) =>
           /\ calls[s].notify = 1
           /\ calls[s].render <= 1
           /\ calls[s].render = 1 =>
                /\ calls[s].context = ConfirmationKeys
                /\ calls[s].send = 1

\* C28 as stated: for an UNSUBSCRIBE message the API is never called, and
\* once routed the template 'unsubscribe_confirmation' was requested once
\* and rendered once with the sender address and a timestamp.
C28_UnsubscribeRenderedOnce ==
  \A s \in SessionIds :
    msg[s].email_type = "UNSUBSCRIBE" =>
      /\ calls[s].api = 0
      /\ Routed(s) =>
           /\ calls[s].notify = 1
           /\ calls[s].template = "unsubscribe_confirmation"
           /\ calls[s].render = 1
           /\ {"email", "unsubscribe_date"} \subseteq calls[s].context

\* C28 amended: for an UNSUBSCRIBE message the API is never called, and
\* once routed the template 'unsubscribe_confirmation' was requested
\* exactly once; it was rendered once, with the sender address and a
\* timestamp, if the template service returned it, and not at all if the
\* template service raised; the handler does not raise either way.
C28_UnsubscribeRequestsOneNotification ==
  \A s \in SessionIds :
    msg[s].email_type = "UNSUBSCRIBE" =>
      /\ calls[s].api = 0
      /\ ~Routed(s) => calls[s].notify = 0
      /\ Routed(s) =>
           /\ handler[s].outcome = "ok"
           /\ calls[s].notify = 1
           /\ calls[s].template = "unsubscribe_confirmation"
           /\ calls[s].fetched <= 1
           /\ calls[s].render = calls[s].fetched
           /\ calls[s].render = 1 =>
                {"email", "unsubscribe_date"} \subseteq calls[s].context
           /\ calls[s].render = 0 => calls[s].context = {}

\* C28 witness: an UNSUBSCRIBE message was routed, its confirmation was
\* rendered, and process_email returned the record.
C28_Witness ==
  \E s \in SessionIds :
    /\ msg[s].email_type = "UNSUBSCRIBE"
    /\ Routed(s)
    /\ calls[s].render = 1
    /\ result[s] = "record"

\* the message of s was classified: its extraction returned
Classified(s) ==
  /\ msg[s] # NoMsg
  /\ pc[s] # "extract"
  /\ ~ExtractEmailContent(MimeOf(msg[s].att)).raised

\* C29: for an AUTO_REPLY, BOUNCE or STANDARD message neither the API nor
\* a notification is invoked and the metadata of the record stays as it
\* was created; if no store operation failed, process_email returns the
\* record, PROCESSED, with the category and the body that were extracted.
C29_LogOnlyCategories ==
  \A s \in SessionIds :
    ( /\ Classified(s)
      /\ msg[s].email_type \in {"AUTO_REPLY", "BOUNCE", "STANDARD"} )
    => /\ calls[s].api = 0
       /\ calls[s].notify = 0
       /\ calls[s].send = 0
       /\ db_email[s] # NoRecord => db_email[s].metadata = "headers"
       /\ (Returned(s) /\ caught[s] = NoExc) =>
            /\ result[s] = "record"
            /\ db_email[s].status = "PROCESSED"
            /\ db_email[s].error = Unset
            /\ db_email[s].email_type = msg[s].email_type
            /\ db_email[s].body = ExtractEmailContent(MimeOf(msg[s].att)).body
            /\ store[db_email[s].id].status = "PROCESSED"

\* C29 witness: a BOUNCE message has been routed by the log-only handler
\* and process_email returned its record.
C29_Witness ==
  \E s \in SessionIds :
    /\ msg[s].email_type = "BOUNCE"
    /\ calls[s].route = 1
    /\ Returned(s)
    /\ result[s] = "record"
    /\ db_email[s].status = "PROCESSED"

\* C30: when process_email returns a record, with or without attachments
\* in the message, the record was saved once, attachment processing was
\* invoked once and routing was invoked once; no stage runs before the
\* one it follows.
C30_EachStageOnce ==
  \A s \in SessionIds :
    /\ calls[s].attach > 0 => calls[s].save = 1
    /\ calls[s].route > 0 => calls[s].save = 1
    /\ (Returned(s) /\ result[s] = "record") =>
         /\ calls[s].save = 1
         /\ calls[s].attach = 1
         /\ calls[s].route = 1

\* ------------------------------------------------- acknowledgment claims
\* C31: handle_DATA gives its reply only after process_email returned, and
\* whenever the reply is 250 the row created for the message has a
\* terminal status and is not RECEIVED any more.
C31_AckAfterTerminalStatus ==
  \A s \in SessionIds :
    /\ dataReply[s] # NoReply => result[s] # "pending"
    /\ (dataReply[s] = 250 /\ cur[s] # 0) =>
         /\ store[cur[s]].status \in Terminal
         /\ store[cur[s]].status # "RECEIVED"

\* a step in which a store operation, the extraction, the API call or a
\* notification of the task of s failed
FailureStep(s) ==
  \/ caught'[s] # caught[s] /\ caught'[s] # NoExc
  \/ handler'[s] # handler[s] /\ handler'[s].outcome = "raised"
  \/ calls'[s].notify > calls[s].notify /\ calls'[s].fetched = calls[s].fetched

\* C32: a failure of the extraction, the store, the API or the notifier
\* during handle_DATA leaves the task inside handle_DATA (nothing escapes),
\* a finished handle_DATA has replied 250 or 451, and the session is then
\* ready for its next message.
C32_NoFailureIsFatal ==
  /\ [](\A s \in SessionIds :
          (pc[s] = "idle" /\ result[s] # "pending") =>
            /\ dataReply[s] \in {250, 451}
            /\ Len(proposed[s]) < MaxRcpt =>
                 ENABLED HandleRcpt(s, <<"u", "@">> \o EMAIL_DOMAIN))
  /\ [][\A s \in SessionIds :
          FailureStep(s) => pc'[s] \in {"except_commit", "exit", "route_commit"}]_vars

\* C32 witness: the first message of a session failed and is FAILED in the
\* store, and a later message of the session was processed and got 250.
C32_Witness ==
  \E s \in SessionIds :
    /\ Len(store) = 2
    /\ store[1].status = "FAILED"
    /\ cur[s] = 2
    /\ store[2].status = "PROCESSED"
    /\ dataReply[s] = 250

\* ---------------------------------------------------- concurrency claims
\* a step that is not a step of the task of s
OthersStep(s) == pc'[s] = pc[s]

\* C33: with two sessions interleaved at every await, each session has a
\* row of its own; category and body of its record are those of its own
\* message, status and error follow from the outcome of its own handler;
\* and a step of the other session (a failure included) changes neither
\* its record, nor its row's status and error, nor its result and reply.
C33_SessionsIndependent ==
  /\ [](\A s \in SessionIds :
          /\ \A t \in SessionIds : (s # t /\ cur[s] # 0) => cur[s] # cur[t]
          /\ db_email[s] # NoRecord =>
               /\ db_email[s].id = cur[s]
               /\ db_email[s].email_type = msg[s].email_type
               /\ db_email[s].body = ExtractEmailContent(MimeOf(msg[s].att)).body
          /\ (Returned(s) /\ result[s] = "record") =>
               /\ db_email[s].status =
                    IF handler[s].outcome = "raised" THEN "FAILED" ELSE "PROCESSED"
               /\ db_email[s].error =
                    IF handler[s].outcome = "raised" THEN handler[s].text ELSE Unset
               /\ store[cur[s]].status = db_email[s].status
               /\ store[cur[s]].error = db_email[s].error)
  /\ [][\A s \in SessionIds :
          OthersStep(s) =>
            /\ db_email'[s] = db_email[s]
            /\ cur'[s] = cur[s]
            /\ result'[s] = result[s]
            /\ dataReply'[s] = dataReply[s]
            /\ cur[s] # 0 =>
                 /\ store'[cur[s]].status = store[cur[s]].status
                 /\ store'[cur[s]].error = store[cur[s]].error]_vars

\* C33 witness: the session that saved its row first is still suspended in
\* the commit of _route_email, with a PROCESSED record, while the other
\* session's message has failed in the API call and has been answered.
C33_Witness ==
  \E s, t \in SessionIds :
    /\ cur[s] = 1
    /\ cur[t] = 2
    /\ pc[s] = "route_commit"
    /\ db_email[s].status = "PROCESSED"
    /\ store[1].status = "RECEIVED"
    /\ handler[t].outcome = "raised"
    /\ store[2].status = "FAILED"
    /\ dataReply[t] = 250

\* ------------------------------------------------------ outbound claims
\* C34: the row send_email created starts PENDING; when send_email has
\* returned it is SENT if the SMTP delivery succeeded and FAILED with an
\* error text otherwise, never PENDING; send_email returned True exactly
\* when the row is SENT; and a SENT or FAILED row never changes status.
C34_OutboundRecordTerminal ==
  /\ [](/\ out.pc = "create_refresh" => out.rows[out.created].status = "PENDING"
        /\ (out.pc = "returned" /\ out.created # 0) =>
             /\ out.rows[out.created].status \in {"SENT", "FAILED"}
             /\ out.rows[out.created].status = "SENT" <=> out.returned = "True"
             /\ out.rows[out.created].status = "FAILED" =>
                  out.rows[out.created].error \notin {Unset, ""})
  /\ [][\A i \in 1..Len(out.rows) :
          out.rows[i].status \in {"SENT", "FAILED"} =>
            out.rows'[i].status = out.rows[i].status]_vars

\* ------------------------------------------------- error handling claims
\* C35: process_email returns None only if no row was stored for the
\* message; once the row exists it returns the record, which is PROCESSED
\* or FAILED.
C35_NoneMeansNothingStored ==
  \A s \in SessionIds :
    Returned(s) =>
      /\ result[s] = "None" => cur[s] = 0
      /\ cur[s] # 0 =>
           /\ result[s] = "record"
           /\ db_email[s].status \in Terminal

\* the confirmation of the message of s was attempted and the template
\* service raised
NotificationFailed(s) == calls[s].notify = 1 /\ calls[s].fetched = 0

\* C36: a failed confirmation (infrastructure request or unsubscribe) does
\* not reach _route_email as an exception: the handler counts as returned,
\* the record is PROCESSED without error text when routing has assigned
\* the status and as long as no store operation fails afterwards, and for
\* an infrastructure request the metadata still has the request id and the
\* API response.
C36_NotificationFailureSwallowed ==
  \A s \in SessionIds :
    NotificationFailed(s) =>
      /\ handler[s].outcome = "ok"
      /\ handler[s].text = NoExc
      /\ caught[s] = NoExc =>
           /\ db_email[s].status = "PROCESSED"
           /\ db_email[s].error = Unset
      /\ Returned(s) /\ caught[s] = NoExc =>
           /\ result[s] = "record"
           /\ store[cur[s]].status = "PROCESSED"
           /\ store[cur[s]].error = Unset
      /\ msg[s].email_type = "INFRA_REQUEST" =>
           db_email[s].metadata = "headers+request"

\* C36 witness: the confirmation of an infrastructure request failed and
\* process_email returned the record, PROCESSED, with the request in its
\* metadata.
C36_Witness ==
  \E s \in SessionIds :
    /\ msg[s].email_type = "INFRA_REQUEST"
    /\ NotificationFailed(s)
    /\ result[s] = "record"
    /\ db_email[s].status = "PROCESSED"
    /\ db_email[s].metadata = "headers+request"

\* ---------------------------------------------------- substring claims
NotUrgent == <<"n", "o", "t", " ", "u", "r", "g", "e", "n", "t">>
LowPriority == <<"l", "o", "w", " ", "p", "r", "i", "o", "r", "i", "t", "y">>
WhenYouCan == <<"w", "h", "e", "n", " ", "y", "o", "u", " ", "c", "a", "n">>
PreProd == <<"p", "r", "e", "p", "r", "o", "d">>
PreProdHyphen == <<"p", "r", "e", "-", "p", "r", "o", "d">>
Staging == <<"s", "t", "a", "g", "i", "n", "g">>

\* the phrase occurs in the subject or in the body of the call
InCall(phrase) == Mentions(fn.subject, phrase) \/ Mentions(fn.body, phrase)

\* C37: a request whose subject or body contains 'not urgent' gets priority
\* high; priority low is given only when 'low priority' or 'when you can'
\* occurs and no high term ('urgent', 'asap', 'high priority', 'blocking')
\* occurs in subject or body.
C37_NotUrgentIsHigh ==
  fn.parsed =>
    /\ InCall(NotUrgent) => fn.request.priority = "high"
    /\ fn.request.priority = "low" =>
         /\ InCall(LowPriority) \/ InCall(WhenYouCan)
         /\ \A k \in 1..Len(priority_high) : ~InCall(priority_high[k])

\* C37 witness: a text with 'Not Urgent' and no other priority term was
\* parsed and its priority is high.
C37_Witness ==
  /\ fn.parsed
  /\ Mentions(fn.body, NotUrgent)
  /\ ~Mentions(fn.subject, priority_high[1])
  /\ fn.request.priority = "high"

\* C38: a request whose subject or body contains 'pre-prod' or 'preprod'
\* gets environment production; environment staging is given only when
\* 'staging' occurs and none of 'prod', 'production', 'live' occurs in
\* subject or body.
C38_PreProdIsProduction ==
  fn.parsed =>
    /\ (InCall(PreProd) \/ InCall(PreProdHyphen)) =>
         fn.request.environment = "production"
    /\ fn.request.environment = "staging" =>
         /\ InCall(Staging)
         /\ \A k \in 1..Len(env_production) : ~InCall(env_production[k])

\* C38 witness: a subject with 'staging' and a body with 'PreProd' were
\* parsed and the environment is production.
C38_Witness ==
  /\ fn.parsed
  /\ Mentions(fn.subject, Staging)
  /\ Mentions(fn.body, PreProd)
  /\ fn.request.environment = "production"

\* ------------------------------------------------------ IMAP bridge claims
\* the messages of the running batch that _process_email has handled
Handled == 1..Len(br.done)

\* C39: a message that parsed into a request got exactly one reply, the
\* success response exactly when the API answered 200 or 202 and the error
\* response otherwise; a message with an empty body caused no API call and
\* no reply.
C39_OneReplyByApiStatus ==
  \A k \in Handled :
    /\ br.done[k].kind = "request" =>
         /\ br.done[k].success + br.done[k].error = 1
         /\ br.done[k].success = 1 <=> br.done[k].answer.status \in {"200", "202"}
    /\ br.done[k].kind = "empty" =>
         br.done[k].api + br.done[k].success + br.done[k].error = 0

InLoop == br.pc \in {"test", "check", "batch", "sleep", "backoff"}

\* an exception was raised while fetching, parsing or answering a message
\* of the running batch
SomeRaised == \E k \in Handled : br.done[k].raised # NoExc

\* C40: after an exception in one message every message of the batch is
\* still processed unless a keyboard interrupt arrives; the loop is left
\* while running is true only by a keyboard interrupt; with running false
\* the loop ends; an unconfigured bridge never polls.
C40_LoopSurvivesAndStops ==
  /\ (br.pc = "batch" /\ SomeRaised) ~>
       (br.interrupted \/ (br.pc = "sleep" /\ Len(br.done) = Len(br.batch)))
  /\ [][(InLoop /\ br.running /\ ~InLoop') => br'.interrupted]_vars
  /\ (InLoop /\ ~br.running) ~> ~InLoop
  /\ [](~br.configured => ~br.polled /\ br.pc \in {"new", "returned"})

\* C40 witness: stop() was called during a batch whose first message
\* raised, and the remaining message was processed all the same.
C40_Witness ==
  /\ br.pc = "sleep"
  /\ ~br.running
  /\ ~br.interrupted
  /\ Len(br.batch) > 1
  /\ Len(br.done) = Len(br.batch)
  /\ br.done[1].raised # NoExc
====
